---- MODULE Spec2Model ----
(***************************************************************************)
(* vecto: the circuit breaker (circuit_breaker.go), the retry executor     *)
(* (executeWithRetry) and the part of Vecto.Request that composes them.    *)
(*                                                                         *)
(* Callers are concurrent goroutines issuing Vecto.Request against one     *)
(* client; every section the code runs under the breaker's mutex is one    *)
(* atomic action, and the clock advances between actions.                  *)
(***************************************************************************)
EXTENDS Integers, Sequences, FiniteSets, TLC

(* ------------------------------ bounds -------------------------------- *)

\* the clock stops advancing at MaxTime
MaxTime == 3
\* the largest MaxAttempts configured, and the cap on attempts when unlimited
MaxAttemptsBound == 5
\* the most completion observers registered on one Request
MaxObservers == 3
\* the most observers of one Request that do anything but return in time
MaxFaulty == 1
\* the most goroutines writing to one Request at once
MaxWriters == 3
\* the goroutines that call GetOrCreate
MaxGetters == 3
\* the largest attempt number a backoff function is called with
MaxAttemptNumber == 10
\* the bits of a time.Duration, an int64 scaled down
DurationBits == 8
\* the most request middlewares registered on one client
MaxMiddlewares == 2

\* concurrent callers of Vecto.Request
Procs == {"g1", "g2"}
\* the single caller of the retry executor's own specification
RetryProcs == {"g1"}

(* --------------------------- values of the code ------------------------ *)

StateClosed == "closed"
StateOpen == "open"
StateHalfOpen == "half-open"

\* the zero time.Time a fresh breaker holds in lastFailureTime
ZeroTime == -1

\* errors: nil, a net.Error, any other transport error, the context's error
ErrNil == [kind |-> "nil"]
ErrNet == [kind |-> "net"]
ErrOther == [kind |-> "other"]
ErrCtx == [kind |-> "ctx"]

\* fmt.Errorf("request failed after %d attempts: %w", attempt, lastErr)
RetryError(n, cause) == [kind |-> "retry", attempts |-> n, cause |-> cause]
\* fmt.Errorf("http request failed: %w", err)
RequestError(cause) == [kind |-> "request", cause |-> cause]
\* &CircuitBreakerError{State: ..., Key: ...}
CircuitBreakerError(s, k) == [kind |-> "circuit", State |-> s, Key |-> k]

\* *Response: nil, or a status code with the private success flag
NilResponse == [isNil |-> TRUE, StatusCode |-> 0, success |-> FALSE]
Response(code, ok) == [isNil |-> FALSE, StatusCode |-> code, success |-> ok]

\* what Client.Do can return: an error with no response, or a response with no
\* error; DefaultClient leaves success false, a custom client may set it
TransportOutcomes ==
    { [res |-> NilResponse, err |-> ErrNet],
      [res |-> NilResponse, err |-> ErrOther],
      [res |-> Response(500, FALSE), err |-> ErrNil],
      [res |-> Response(404, FALSE), err |-> ErrNil],
      [res |-> Response(200, FALSE), err |-> ErrNil],
      [res |-> Response(200, TRUE), err |-> ErrNil] }

\* DefaultClient against a server that is down, failing or healthy
DefaultClientOutcomes ==
    { [res |-> NilResponse, err |-> ErrNet],
      [res |-> Response(500, FALSE), err |-> ErrNil],
      [res |-> Response(200, FALSE), err |-> ErrNil] }

\* the key of the one breaker the callers share (scheme://host)
BreakerKey == "https://example.com"

(* ------------------------------ state --------------------------------- *)

VARIABLES
    now,            \* time.Now()
    config,         \* CircuitBreaker.config
    cb,             \* the CircuitBreaker's fields
    hasBreaker,     \* v.circuitBreakerMgr != nil
    retryConfig,    \* v.getRetryConfig(options)
    transport,      \* what v.client.Do can return
    pc,             \* where each caller is in Vecto.Request
    attempt,        \* executeWithRetry: attempt
    lastResponse,   \* executeWithRetry: lastResponse
    lastErr,        \* executeWithRetry: lastErr
    res,            \* Vecto.Request: res
    err,            \* Vecto.Request: err
    ctxDone,        \* ctx.Err() != nil
    \* history variables
    hist,           \* the outcomes Client.Do returned to this call, in order
    checks,         \* the allowRequest calls made for this call
    gate,           \* this call's allow-check: "none" before it; "open" when it found
                    \* the breaker Open with Timeout not yet elapsed; else
                    \* "admitted" or "refused", its answer
    records,        \* per call: the recordResult calls made, each with the attempts before it
    probe,          \* admitted in the current HalfOpen period, result not yet recorded
    closedFailures, \* times of the failures recorded since the breaker was last Closed
    halfOpenResults,\* non-failing results recorded in a row in this HalfOpen period
    enteredAt,      \* when the breaker entered the state it is in
    last,           \* the latest allowRequest or recordResult: what it saw
    \* completion dispatch
    callbacks,      \* dispatch: callbacks, each observer by what it does
    maxConcurrent,  \* dispatch: maxConcurrent
    dispatchCtxDone,\* dispatch: ctx.Err() != nil
    dpc,            \* where dispatch is: "start", "loop", "select", or where it
                    \* returned: "returned" after the loop, "skippedAtCheck" at
                    \* line 58, "skippedAtSelect" at line 68
    next,           \* the index of the observer the loop is at
    sem,            \* len(sem): the slots taken
    task,           \* per observer: its executeCallback goroutine
    inner,          \* per observer: the goroutine that calls the callback
    reports,        \* per observer: what the dispatcher logged about it
    crashed,        \* the process died of a panic no goroutine recovered
    responses,      \* the Data of the Response objects: res and responseCopy
    seen,           \* per observer: the Data its event held when it was called
    channels,       \* channelDispatcher.dispatch: channels, each by cap and len
    delivered,      \* per channel: the events dispatch has enqueued
    ctxAtCall,      \* ctx.Err() != nil when dispatch was called
    \* the Request and the goroutines that write to it
    request,        \* Request: mu, baseURL, method, headers, params, url
    writers,        \* per goroutine: its call, where it is in it, what it read
    builder,        \* requestBuilder: err, and what was called on it and on
                    \* the Request it built
    mgr,            \* CircuitBreakerManager: mu, breakers, and the breakers
                    \* NewCircuitBreaker has constructed for it
    getters,        \* per goroutine: its GetOrCreate call
    fn,             \* a function of the package called on its own: its name,
                    \* its arguments and what it returned
    chain,          \* v.middleware.requestMW, and per caller what
                    \* interceptRequest has run of it
    keyed           \* a Request's mu, scheme, host and cached breaker key, and
                    \* per goroutine its getOrSetCircuitBreakerKey call

vars == << now, config, cb, hasBreaker, retryConfig, transport, pc, attempt, lastResponse,
           lastErr, res, err, ctxDone, hist, checks, gate, records, probe,
           closedFailures, halfOpenResults, enteredAt, last, callbacks,
           maxConcurrent, dispatchCtxDone, dpc, next, sem, task, inner, reports,
           crashed, responses, seen, channels, delivered, ctxAtCall, request,
           writers, builder, mgr, getters, fn, chain, keyed >>

(* ------------------------- configurations ------------------------------ *)

\* the thresholds and durations a breaker is configured with
ThresholdValues == {1, 2}
ProbeLimitValues == {1, 2}
DurationValues == {1, 2}

\* CircuitBreakerConfig after NewCircuitBreaker's defaulting: every field positive
CircuitBreakerConfigs ==
    [ FailureThreshold : ThresholdValues,
      SuccessThreshold : ThresholdValues,
      Timeout : DurationValues,
      HalfOpenMaxRequests : ProbeLimitValues,
      WindowSize : DurationValues ]

\* RetryConfig: nil, or MaxAttempts (-1 = unlimited; New accepts any int, -2
\* included, ValidateRetryConfig being left to the user) with a RetryCondition:
\* the default one, or a custom one that accepts, or refuses, every outcome
NoRetryConfig == [isNil |-> TRUE, MaxAttempts |-> 0, RetryCondition |-> "default"]
RetryConfigs ==
    [ isNil : {FALSE},
      MaxAttempts : (-2) .. MaxAttemptsBound,
      RetryCondition : {"default", "always", "never"} ]

(* --------------------------- circuit breaker --------------------------- *)

\* config.ShouldTrip when none is configured
defaultShouldTrip(r, e) ==
    IF e # ErrNil THEN TRUE
    ELSE IF r.isNil THEN TRUE
    ELSE r.StatusCode >= 500 \/ r.StatusCode < 200

\* NewCircuitBreaker: Closed, no failures, stateChangeTime = time.Now()
NewCircuitBreaker(key, t) ==
    [ key |-> key,
      state |-> StateClosed,
      failures |-> << >>,
      lastFailureTime |-> ZeroTime,
      halfOpenRequests |-> 0,
      consecutiveSuccesses |-> 0,
      stateChangeTime |-> t ]

\* keeps the failures whose timestamp is After(now - WindowSize)
\* cleanupOldFailures that keeps every record
cleanupKeepsAll(b, t) == b

cleanupOldFailures(b, t) ==
    [b EXCEPT !.failures = SelectSeq(@, LAMBDA f : f > t - config.WindowSize)]

recordFailure(b, t) ==
    cleanupOldFailures(
        [b EXCEPT !.failures = Append(@, t), !.lastFailureTime = t], t)

\* shouldOpen with the comparison off by one
shouldOpenAbove(b) == Len(b.failures) > config.FailureThreshold

shouldOpen(b) == Len(b.failures) >= config.FailureThreshold

\* a breaker whose config has an OnStateChange callback: notified holds the
\* calls made of it, in order
WithOnStateChange(b) ==
    [x \in DOMAIN b \cup {"notified"} |-> IF x = "notified" THEN << >> ELSE b[x]]

\* notifyStateChange that calls the callback twice
notifyStateChangeTwice(b, from, to) ==
    IF "notified" \in DOMAIN b
    THEN [b EXCEPT !.notified = @ \o << << from, to, b.key >>, << from, to, b.key >> >>]
    ELSE b

\* notifyStateChange: OnStateChange(from, to, cb.key) when it is configured
notifyStateChange(b, from, to) ==
    IF "notified" \in DOMAIN b
    THEN [b EXCEPT !.notified = Append(@, << from, to, b.key >>)]
    ELSE b

\* transitionToOpen that forgets to stamp stateChangeTime
transitionToOpenUnstamped(b, t) ==
    IF b.state = StateOpen THEN b
    ELSE [b EXCEPT !.state = StateOpen,
                   !.halfOpenRequests = 0,
                   !.consecutiveSuccesses = 0]

transitionToOpen(b, t) ==
    IF b.state = StateOpen THEN b
    ELSE notifyStateChange([b EXCEPT !.state = StateOpen,
                                     !.stateChangeTime = t,
                                     !.halfOpenRequests = 0,
                                     !.consecutiveSuccesses = 0],
                           b.state, StateOpen)

transitionToHalfOpen(b, t) ==
    IF b.state = StateHalfOpen THEN b
    ELSE notifyStateChange([b EXCEPT !.state = StateHalfOpen,
                                     !.stateChangeTime = t,
                                     !.halfOpenRequests = 0,
                                     !.consecutiveSuccesses = 0],
                           b.state, StateHalfOpen)

\* transitionToClosed that keeps the failure window
transitionToClosedKeepsWindow(b, t) ==
    IF b.state = StateClosed THEN b
    ELSE [b EXCEPT !.state = StateClosed,
                   !.stateChangeTime = t,
                   !.halfOpenRequests = 0,
                   !.consecutiveSuccesses = 0]

transitionToClosed(b, t) ==
    IF b.state = StateClosed THEN b
    ELSE notifyStateChange([b EXCEPT !.state = StateClosed,
                                     !.stateChangeTime = t,
                                     !.failures = << >>,
                                     !.halfOpenRequests = 0,
                                     !.consecutiveSuccesses = 0],
                           b.state, StateClosed)

\* allowRequest that waits for more than Timeout
allowRequestLate(b, t) ==
    CASE b.state = StateClosed ->
            [cb |-> cleanupOldFailures(b, t), ok |-> TRUE]
      [] b.state = StateOpen ->
            IF t - b.stateChangeTime > config.Timeout
            THEN [cb |-> transitionToHalfOpen(b, t), ok |-> TRUE]
            ELSE [cb |-> b, ok |-> FALSE]
      [] b.state = StateHalfOpen ->
            IF b.halfOpenRequests >= config.HalfOpenMaxRequests
            THEN [cb |-> b, ok |-> FALSE]
            ELSE [cb |-> [b EXCEPT !.halfOpenRequests = @ + 1], ok |-> TRUE]
      [] OTHER -> [cb |-> b, ok |-> FALSE]

\* allowRequest under cb.mu: the breaker afterwards and the answer
allowRequest(b, t) ==
    CASE b.state = StateClosed ->
            [cb |-> cleanupOldFailures(b, t), ok |-> TRUE]
      [] b.state = StateOpen ->
            IF t - b.stateChangeTime >= config.Timeout
            THEN [cb |-> transitionToHalfOpen(b, t), ok |-> TRUE]
            ELSE [cb |-> b, ok |-> FALSE]
      [] b.state = StateHalfOpen ->
            IF b.halfOpenRequests >= config.HalfOpenMaxRequests
            THEN [cb |-> b, ok |-> FALSE]
            ELSE [cb |-> [b EXCEPT !.halfOpenRequests = @ + 1], ok |-> TRUE]
      [] OTHER -> [cb |-> b, ok |-> FALSE]

\* the StateHalfOpen case with a failure that only ends the success streak
recordHalfOpenStays(b, isFailure, t) ==
    IF isFailure
    THEN [b EXCEPT !.halfOpenRequests = 0, !.consecutiveSuccesses = 0]
    ELSE LET c == [b EXCEPT !.consecutiveSuccesses = @ + 1,
                            !.halfOpenRequests = @ - 1]
         IN  IF c.consecutiveSuccesses >= config.SuccessThreshold
             THEN transitionToClosed(c, t)
             ELSE c

\* the StateHalfOpen case of recordResult
recordHalfOpen(b, isFailure, t) ==
    IF isFailure
    THEN [transitionToOpen(b, t) EXCEPT !.halfOpenRequests = 0,
                                        !.consecutiveSuccesses = 0]
    ELSE LET c == [b EXCEPT !.consecutiveSuccesses = @ + 1,
                            !.halfOpenRequests = @ - 1]
         IN  IF c.consecutiveSuccesses >= config.SuccessThreshold
             THEN transitionToClosed(c, t)
             ELSE c

\* the StateClosed case with the threshold tested before the failure is added
recordClosedTestsFirst(b, isFailure, t) ==
    IF isFailure
    THEN IF shouldOpen(b)
         THEN transitionToOpen(recordFailure(b, t), t)
         ELSE recordFailure(b, t)
    ELSE cleanupOldFailures(b, t)

\* the StateClosed case of recordResult
recordClosed(b, isFailure, t) ==
    IF isFailure
    THEN LET c == recordFailure(b, t)
         IN  IF shouldOpen(c) THEN transitionToOpen(c, t) ELSE c
    ELSE cleanupOldFailures(b, t)

\* recordResult without its StateHalfOpen case
recordResultClosedOnly(b, r, e, t) ==
    IF b.state = StateClosed
    THEN recordClosed(b, defaultShouldTrip(r, e), t)
    ELSE b

\* recordResult under cb.mu; a result recorded while Open changes nothing
recordResult(b, r, e, t) ==
    LET isFailure == defaultShouldTrip(r, e)
    IN  CASE b.state = StateClosed -> recordClosed(b, isFailure, t)
          [] b.state = StateHalfOpen -> recordHalfOpen(b, isFailure, t)
          [] OTHER -> b

(* ---------------------------- retry executor --------------------------- *)

\* a net.Error or a *url.Error: the only errors the default condition retries
isNetworkError(e) == e = ErrNet

DefaultRetryCondition(r, e) ==
    IF e # ErrNil THEN isNetworkError(e)
    ELSE IF r.isNil THEN FALSE
    ELSE r.StatusCode >= 500 \/ r.StatusCode = 429

\* config.RetryCondition, DefaultRetryCondition when none is set
RetryCondition(c, r, e) ==
    CASE c.RetryCondition = "always" -> TRUE
      [] c.RetryCondition = "never" -> FALSE
      [] OTHER -> DefaultRetryCondition(r, e)

shouldRetry(n, c, r, e) ==
    IF c.isNil THEN FALSE
    ELSE IF c.MaxAttempts >= 0 /\ n >= c.MaxAttempts THEN FALSE
    ELSE RetryCondition(c, r, e)

\* executeWithRetry without its early return
succeededNever(r, e) == FALSE

\* executeWithRetry, line 247: the attempt that ends the loop with success
succeeded(r, e) == e = ErrNil /\ ~r.isNil /\ r.success

\* what executeWithRetry returns once the loop is left by break
afterLoop(n, r, e) ==
    IF e # ErrNil THEN [res |-> r, err |-> RetryError(n, e)]
    ELSE [res |-> r, err |-> ErrNil]

\* config.ValidateStatus of defaultConfig
ValidateStatus(r) ==
    IF r.isNil THEN FALSE ELSE r.StatusCode >= 200 /\ r.StatusCode < 300

\* shouldUseRetry: the breaker is nil, or not Open when GetState reads it
shouldUseRetry(useBreaker, b) == ~useBreaker \/ b.state # StateOpen

(* ------------------------------ initial state -------------------------- *)

NoStep == [op |-> "none", p |-> "", from |-> "", elapsed |-> FALSE, fail |-> FALSE,
           ok |-> FALSE]

\* the observers a Request can hold
Observers == 1 .. MaxObservers

\* the dispatcher before any dispatch: no observer registered
NoDispatch ==
    /\ callbacks = << >>
    /\ maxConcurrent = 1
    /\ dispatchCtxDone = FALSE
    /\ dpc = "returned"
    /\ next = 1
    /\ sem = 0
    /\ task = [i \in Observers |-> "none"]
    /\ inner = [i \in Observers |-> "none"]
    /\ reports = [i \in Observers |-> {}]
    /\ crashed = FALSE
    /\ responses = [res |-> "body", responseCopy |-> "nil"]
    /\ seen = [i \in Observers |-> "none"]
    /\ channels = << >>
    /\ delivered = [i \in Observers |-> 0]
    /\ ctxAtCall = FALSE

\* the goroutines that write to a Request
Writers == 1 .. MaxWriters

\* a map: nil, or made and holding the entries m
NilMap == [isNil |-> TRUE, m |-> << >>]
MadeMap(m) == [isNil |-> FALSE, m |-> m]

\* a string of the program is the tuple of its pieces; the empty string
EmptyString == << >>

\* a URL string by what url.Parse makes of it: whether it parses, what
\* precedes the query, and the query as url.Values, the strings of each key
PlainURL == [ok |-> TRUE, path |-> << "http://example.com/pets" >>, query |-> << >>]

\* URL.String(): the URL up to the query, and the encoded query
UrlString(path, rawQuery) == [path |-> path, RawQuery |-> rawQuery]

\* a Request nobody writes to
NoSetters ==
    /\ request = [mu |-> 0, baseURL |-> PlainURL, method |-> "GET",
                  headers |-> MadeMap(<< >>), params |-> MadeMap(<< >>),
                  url |-> UrlString(EmptyString, EmptyString)]
    /\ writers = [w \in Writers |-> [op |-> "none", pc |-> "done", sawNil |-> FALSE]]

\* no requestBuilder at work
NoBuilder ==
    builder = [state |-> "none", err |-> FALSE, ops |-> 0, op |-> "none",
               ret |-> FALSE, sent |-> UrlString(EmptyString, EmptyString)]

\* the goroutines that call GetOrCreate
Getters == 1 .. MaxGetters

\* a CircuitBreakerManager nobody calls
NoManager ==
    /\ mgr = [readers |-> 0, writer |-> 0, breakers |-> << >>, made |-> << >>]
    /\ getters = [g \in Getters |-> [pc |-> "returned", key |-> "", config |-> "nil",
                                     exists |-> FALSE, ret |-> 0]]

\* a Request no breaker key is asked of
NoKeyed ==
    keyed = [mu |-> [writer |-> 0, readers |-> {}], scheme |-> "", host |-> "",
             cbKey |-> << >>, cbKeyCached |-> FALSE, computed |-> 0,
             g |-> [g \in Getters |-> [pc |-> "returned", site |-> "none",
                                       scheme |-> "", ret |-> << >>]]]

\* the locals of every caller before its call
InitLocals ==
    /\ pc = [p \in Procs |-> "idle"]
    /\ attempt = [p \in Procs |-> 0]
    /\ lastResponse = [p \in Procs |-> NilResponse]
    /\ lastErr = [p \in Procs |-> ErrNil]
    /\ res = [p \in Procs |-> NilResponse]
    /\ err = [p \in Procs |-> ErrNil]
    /\ ctxDone = [p \in Procs |-> FALSE]
    /\ hist = [p \in Procs |-> << >>]
    /\ checks = [p \in Procs |-> 0]
    /\ gate = [p \in Procs |-> "none"]
    /\ records = [p \in Procs |-> << >>]
    /\ probe = [p \in Procs |-> FALSE]
    /\ closedFailures = << >>
    /\ halfOpenResults = 0
    /\ enteredAt = 0
    /\ last = NoStep

\* no function called on its own
NoFunction == fn = [name |-> "none"]

\* a client without request middleware
NoMiddleware ==
    chain = [requestMW |-> << >>, ran |-> [p \in Procs |-> << >>],
             req |-> [p \in Procs |-> << >>]]

\* the locals of every caller before its call, with no builder and no
\* manager at work, and no middleware registered
InitCalls ==
    /\ InitLocals
    /\ NoBuilder
    /\ NoManager
    /\ NoFunction
    /\ NoMiddleware
    /\ NoKeyed

\* a client with circuit breaking and no retry policy, its breaker fresh
Init ==
    /\ now = 0
    /\ config \in CircuitBreakerConfigs
    /\ cb = NewCircuitBreaker(BreakerKey, 0)
    /\ hasBreaker = TRUE
    /\ retryConfig = NoRetryConfig
    /\ transport = DefaultClientOutcomes
    /\ InitCalls
    /\ NoSetters
    /\ NoDispatch

\* a client with circuit breaking and a retry policy
InitRequest ==
    /\ now = 0
    /\ config = [FailureThreshold |-> 2, SuccessThreshold |-> 1, Timeout |-> 1,
                 HalfOpenMaxRequests |-> 1, WindowSize |-> 2]
    /\ cb = NewCircuitBreaker(BreakerKey, 0)
    /\ hasBreaker = TRUE
    /\ retryConfig = [isNil |-> FALSE, MaxAttempts |-> 2, RetryCondition |-> "default"]
    /\ transport = DefaultClientOutcomes
    /\ InitCalls
    /\ NoSetters
    /\ NoDispatch

\* a client without circuit breaking, under every retry policy and transport
InitRetry ==
    /\ now = 0
    /\ config = [FailureThreshold |-> 1, SuccessThreshold |-> 1, Timeout |-> 1,
                 HalfOpenMaxRequests |-> 1, WindowSize |-> 1]
    /\ cb = NewCircuitBreaker(BreakerKey, 0)
    /\ hasBreaker = FALSE
    /\ retryConfig \in RetryConfigs \cup {NoRetryConfig}
    /\ transport = TransportOutcomes
    /\ InitCalls
    /\ NoSetters
    /\ NoDispatch

(* -------------------------------- actions ------------------------------ *)

breakerVars == << cb, closedFailures, halfOpenResults, enteredAt, probe, checks,
                 gate, records, last >>
retryVars == << attempt, lastResponse, lastErr, hist >>
channelVars == << channels, delivered, ctxAtCall >>
dispatchVars == << callbacks, maxConcurrent, dispatchCtxDone, dpc, next, sem, task,
                  inner, reports, crashed, responses, seen, channelVars >>
\* what no step of a request changes: the configuration, and the completion
\* dispatch that follows the request
setterVars == << request, writers >>
\* the construction of a Request, over before any of this
mgrVars == << mgr, getters >>
extraVars == << keyed >>
lateVars == << builder, mgrVars, fn, chain, extraVars >>
fixedVars == << config, hasBreaker, retryConfig, transport, dispatchVars, setterVars,
               lateVars >>

\* fn returns (r, e) to its caller
ReturnFrom(p, r, e) ==
    /\ res' = [res EXCEPT ![p] = r]
    /\ err' = [err EXCEPT ![p] = e]
    /\ pc' = [pc EXCEPT ![p] = "returned"]

\* CircuitBreaker.Execute up to its allow-check: allowRequest, one critical section
Execute(p) ==
    /\ hasBreaker
    /\ pc[p] = "idle"
    /\ LET a == allowRequest(cb, now)
           elapsed == now - enteredAt >= config.Timeout
           entered == cb.state # StateHalfOpen /\ a.cb.state = StateHalfOpen
           asProbe == a.ok /\ a.cb.state = StateHalfOpen
       IN  /\ cb' = a.cb
           /\ pc' = [pc EXCEPT ![p] = IF a.ok THEN "admitted" ELSE "rejected"]
           /\ checks' = [checks EXCEPT ![p] = @ + 1]
           /\ gate' = [gate EXCEPT ![p] =
                          IF cb.state = StateOpen /\ ~elapsed THEN "open"
                          ELSE IF a.ok THEN "admitted" ELSE "refused"]
           /\ probe' = [q \in Procs |->
                          IF q = p THEN asProbe
                          ELSE IF entered THEN FALSE ELSE probe[q]]
           /\ halfOpenResults' = IF entered THEN 0 ELSE halfOpenResults
           /\ enteredAt' = IF a.cb.state # cb.state THEN now ELSE enteredAt
           /\ last' = [op |-> "allow", p |-> p, from |-> cb.state,
                       elapsed |-> elapsed, fail |-> FALSE, ok |-> a.ok]
    /\ UNCHANGED << now, fixedVars, retryVars, res, err, ctxDone, closedFailures,
                    records >>

\* Execute, rejected: the error carries the state getState reads now; Request
\* returns it through handleCircuitBreakerError
Rejected(p) ==
    /\ pc[p] = "rejected"
    /\ res' = [res EXCEPT ![p] = NilResponse]
    /\ err' = [err EXCEPT ![p] = CircuitBreakerError(cb.state, cb.key)]
    /\ pc' = [pc EXCEPT ![p] = "done"]
    /\ UNCHANGED << now, fixedVars, retryVars, ctxDone, breakerVars >>

\* requestHandler.executeRequest: the retry executor when a policy is set and
\* the breaker is not Open, else one transport call; executeWithRetry itself
\* falls back to one transport call when MaxAttempts is 0
executeRequest(p) ==
    /\ pc[p] = IF hasBreaker THEN "admitted" ELSE "idle"
    /\ pc' = [pc EXCEPT ![p] =
                 IF /\ ~retryConfig.isNil
                    /\ shouldUseRetry(hasBreaker, cb)
                    /\ retryConfig.MaxAttempts # 0
                 THEN "attempt" ELSE "do"]
    /\ UNCHANGED << now, fixedVars, retryVars, res, err, ctxDone, breakerVars >>

\* v.client.Do, called once
Do(p) ==
    /\ pc[p] = "do"
    /\ \E o \in transport :
          /\ hist' = [hist EXCEPT ![p] = Append(@, o)]
          /\ ReturnFrom(p, o.res, o.err)
    /\ UNCHANGED << now, fixedVars, attempt, lastResponse, lastErr, ctxDone,
                    breakerVars >>

\* one turn of executeWithRetry's loop, up to its return or its wait
Attempt(p) ==
    /\ pc[p] = "attempt"
    /\ attempt[p] <= MaxAttemptsBound
    /\ \E o \in transport :
          LET n == attempt[p] + 1
          IN  /\ attempt' = [attempt EXCEPT ![p] = n]
              /\ lastResponse' = [lastResponse EXCEPT ![p] = o.res]
              /\ lastErr' = [lastErr EXCEPT ![p] = o.err]
              /\ hist' = [hist EXCEPT ![p] = Append(@, o)]
              /\ IF succeeded(o.res, o.err)
                 THEN ReturnFrom(p, o.res, ErrNil)
                 ELSE IF ~shouldRetry(n, retryConfig, o.res, o.err)
                 THEN LET r == afterLoop(n, o.res, o.err)
                      IN  ReturnFrom(p, r.res, r.err)
                 ELSE IF ctxDone[p]
                 THEN ReturnFrom(p, o.res, ErrCtx)
                 ELSE /\ pc' = [pc EXCEPT ![p] = "wait"]
                      /\ UNCHANGED << res, err >>
    /\ UNCHANGED << now, fixedVars, ctxDone, breakerVars >>

\* the select of the wait that hands back the last attempt's error
WaitCancelledLastErr(p) ==
    /\ pc[p] = "wait"
    /\ ctxDone[p]
    /\ ReturnFrom(p, lastResponse[p], lastErr[p])
    /\ UNCHANGED << now, fixedVars, retryVars, ctxDone, breakerVars >>

\* the select of the wait whose ctx.Done() case goes on with the loop
WaitCancelledGoesOn(p) ==
    /\ pc[p] = "wait"
    /\ ctxDone[p]
    /\ pc' = [pc EXCEPT ![p] = "attempt"]
    /\ UNCHANGED << now, fixedVars, retryVars, res, err, ctxDone, breakerVars >>

\* the select of the wait: ctx.Done() is ready
WaitCancelled(p) ==
    /\ pc[p] = "wait"
    /\ ctxDone[p]
    /\ ReturnFrom(p, lastResponse[p], ErrCtx)
    /\ UNCHANGED << now, fixedVars, retryVars, ctxDone, breakerVars >>

\* the select of the wait: time.After(waitTime) is ready first; the wait is
\* positive (the backoffs answer time.Second for a WaitTime that is not), so
\* the timer is never ready when the select begins
WaitElapsed(p) ==
    /\ pc[p] = "wait"
    /\ ~ctxDone[p]
    /\ pc' = [pc EXCEPT ![p] = "attempt"]
    /\ UNCHANGED << now, fixedVars, retryVars, res, err, ctxDone, breakerVars >>

\* the history of one recordResult call by p that sees outcome (r, e)
Recorded(p, r, e) ==
    LET isFailure == defaultShouldTrip(r, e)
        after == recordResult(cb, r, e, now)
    IN  /\ cb' = after
        /\ records' = [records EXCEPT ![p] = Append(@, Len(hist[p]))]
        /\ closedFailures' =
              IF cb.state = StateClosed /\ isFailure
              THEN Append(closedFailures, now)
              ELSE IF cb.state # StateClosed /\ after.state = StateClosed
              THEN << >>
              ELSE closedFailures
        /\ halfOpenResults' =
              IF cb.state # StateHalfOpen THEN halfOpenResults
              ELSE IF isFailure THEN 0 ELSE halfOpenResults + 1
        /\ enteredAt' = IF after.state # cb.state THEN now ELSE enteredAt
        /\ probe' = [q \in Procs |->
                        IF q = p \/ after.state # StateHalfOpen
                        THEN FALSE ELSE probe[q]]
        /\ last' = [op |-> "record", p |-> p, from |-> cb.state,
                    elapsed |-> FALSE, fail |-> isFailure, ok |-> FALSE]

\* Execute that records whatever fn returned
executeRecordsAll(e) == TRUE

\* Execute, line 152: the results it records itself
executeRecords(e) == e # ErrNil

\* Execute after fn returned: recordResult(res, err) when there is an error,
\* then res and err go back to Request
ExecuteReturns(p) ==
    /\ hasBreaker
    /\ pc[p] = "returned"
    /\ IF executeRecords(err[p])
       THEN Recorded(p, res[p], err[p])
       ELSE UNCHANGED << cb, closedFailures, halfOpenResults, enteredAt, probe,
                         records, last >>
    /\ pc' = [pc EXCEPT ![p] = "executed"]
    /\ UNCHANGED << now, fixedVars, retryVars, res, err, ctxDone, checks, gate >>

\* Request after Execute returned an error: handleRequestError
RequestFails(p) ==
    /\ pc[p] = "executed"
    /\ err[p] # ErrNil
    /\ res' = [res EXCEPT ![p] = NilResponse]
    /\ err' = [err EXCEPT ![p] = RequestError(err[p])]
    /\ pc' = [pc EXCEPT ![p] = "done"]
    /\ UNCHANGED << now, fixedVars, retryVars, ctxDone, breakerVars >>

\* Request after Execute returned no error: the success flag is set by
\* ValidateStatus, then breaker.RecordResult(res, nil)
RequestRecords(p) ==
    /\ pc[p] = "executed"
    /\ err[p] = ErrNil
    /\ LET r == [res[p] EXCEPT !.success = ValidateStatus(res[p])]
       IN  /\ Recorded(p, r, ErrNil)
           /\ res' = [res EXCEPT ![p] = r]
    /\ pc' = [pc EXCEPT ![p] = "done"]
    /\ UNCHANGED << now, fixedVars, retryVars, err, ctxDone, checks, gate >>

\* Request without a breaker: handleRequestError, or the validated response
Finish(p) ==
    /\ ~hasBreaker
    /\ pc[p] = "returned"
    /\ IF err[p] # ErrNil
       THEN /\ res' = [res EXCEPT ![p] = NilResponse]
            /\ err' = [err EXCEPT ![p] = RequestError(err[p])]
       ELSE /\ res' = [res EXCEPT ![p] =
                          [res[p] EXCEPT !.success = ValidateStatus(res[p])]]
            /\ UNCHANGED err
    /\ pc' = [pc EXCEPT ![p] = "done"]
    /\ UNCHANGED << now, fixedVars, retryVars, ctxDone, breakerVars >>

\* the call is over; the goroutine may issue the next one
Return(p) ==
    /\ pc[p] = "done"
    /\ pc' = [pc EXCEPT ![p] = "idle"]
    /\ attempt' = [attempt EXCEPT ![p] = 0]
    /\ lastResponse' = [lastResponse EXCEPT ![p] = NilResponse]
    /\ lastErr' = [lastErr EXCEPT ![p] = ErrNil]
    /\ res' = [res EXCEPT ![p] = NilResponse]
    /\ err' = [err EXCEPT ![p] = ErrNil]
    /\ ctxDone' = [ctxDone EXCEPT ![p] = FALSE]
    /\ hist' = [hist EXCEPT ![p] = << >>]
    /\ checks' = [checks EXCEPT ![p] = 0]
    /\ gate' = [gate EXCEPT ![p] = "none"]
    /\ records' = [records EXCEPT ![p] = << >>]
    /\ UNCHANGED << now, fixedVars, cb, closedFailures, halfOpenResults, enteredAt,
                    probe, last >>

\* the caller cancels the context of a call in progress
Cancel(p) ==
    /\ pc[p] \in {"attempt", "wait"}
    /\ ~ctxDone[p]
    /\ ctxDone' = [ctxDone EXCEPT ![p] = TRUE]
    /\ UNCHANGED << now, fixedVars, retryVars, pc, res, err, breakerVars >>

\* time passes
Tick ==
    /\ now < MaxTime
    /\ now' = now + 1
    /\ UNCHANGED << fixedVars, retryVars, pc, res, err, ctxDone, breakerVars >>

\* callers sharing a breaker, each call one transport call
Next ==
    \/ Tick
    \/ \E p \in Procs :
          \/ Execute(p)
          \/ Rejected(p)
          \/ executeRequest(p)
          \/ Do(p)
          \/ ExecuteReturns(p)
          \/ RequestFails(p)
          \/ RequestRecords(p)
          \/ Return(p)

Spec == Init /\ [][Next]_vars

\* callers sharing a breaker, each call a retry sequence
NextRequest ==
    \/ Tick
    \/ \E p \in Procs :
          \/ Execute(p)
          \/ Rejected(p)
          \/ executeRequest(p)
          \/ Do(p)
          \/ Attempt(p)
          \/ WaitCancelled(p)
          \/ WaitElapsed(p)
          \/ ExecuteReturns(p)
          \/ RequestFails(p)
          \/ RequestRecords(p)
          \/ Return(p)
          \/ Cancel(p)

SpecRequest == InitRequest /\ [][NextRequest]_vars

\* one caller of the retry executor, no breaker
NextRetry ==
    \E p \in RetryProcs :
        \/ executeRequest(p)
        \/ Do(p)
        \/ Attempt(p)
        \/ WaitCancelled(p)
        \/ WaitElapsed(p)
        \/ Finish(p)
        \/ Return(p)
        \/ Cancel(p)

SpecRetry == InitRetry /\ [][NextRetry]_vars

\* a client without circuit breaking whose retry policy is unlimited
InitRetryLive ==
    /\ now = 0
    /\ config = [FailureThreshold |-> 1, SuccessThreshold |-> 1, Timeout |-> 1,
                 HalfOpenMaxRequests |-> 1, WindowSize |-> 1]
    /\ cb = NewCircuitBreaker(BreakerKey, 0)
    /\ hasBreaker = FALSE
    /\ retryConfig \in { c \in RetryConfigs : c.MaxAttempts = -1 }
    /\ transport = TransportOutcomes
    /\ InitCalls
    /\ NoSetters
    /\ NoDispatch

\* the caller cancels the context while the attempts followed here last
CancelInTime(p) ==
    /\ attempt[p] <= MaxAttemptsBound
    /\ Cancel(p)

NextRetryLive ==
    \E p \in RetryProcs :
        \/ executeRequest(p)
        \/ Attempt(p)
        \/ WaitCancelled(p)
        \/ WaitElapsed(p)
        \/ Finish(p)
        \/ Return(p)
        \/ CancelInTime(p)

\* the transport answers, timers fire and the goroutine of the call runs;
\* nothing obliges the caller to cancel or to call again
RetryFairness ==
    \A p \in RetryProcs :
        /\ WF_vars(Attempt(p))
        /\ WF_vars(WaitCancelled(p))
        /\ WF_vars(WaitElapsed(p))

SpecRetryLive == InitRetryLive /\ [][NextRetryLive]_vars /\ RetryFairness

(* --------------------------- completion dispatch ----------------------- *)

\* what an observer does when called: return within CallbackTimeout, run past
\* it, panic, or change the Data of its event's response and return in time
CallbackKinds == {"fast", "slow", "panic", "mutate"}

\* MaxConcurrentCallbacks after dispatch's defaulting: positive
MaxConcurrentValues == {1, 2}

\* the registered observers: up to MaxObservers, at most MaxFaulty not "fast"
CallbackLists ==
    { c \in UNION { [1 .. n -> CallbackKinds] : n \in 1 .. MaxObservers } :
         Cardinality({ i \in DOMAIN c : c[i] # "fast" }) <= MaxFaulty }

\* Response.deepCopy: a new Response whose Data is a copy of the bytes
deepCopy(data) == data

\* recover() in a deferred function stops a panic of its own goroutine only
recovers(deferIn, panicIn) == deferIn = panicIn

\* everything a request's steps use, which dispatch leaves alone
baseVars == << now, config, cb, hasBreaker, retryConfig, transport, pc, attempt,
               lastResponse, lastErr, res, err, ctxDone, hist, breakerVars >>
callVars == << baseVars, lateVars >>
requestVars == << callVars, setterVars >>

\* a finalized response about to be dispatched to the observers of its Request
InitDispatch ==
    /\ now = 0
    /\ config = [FailureThreshold |-> 1, SuccessThreshold |-> 1, Timeout |-> 1,
                 HalfOpenMaxRequests |-> 1, WindowSize |-> 1]
    /\ cb = NewCircuitBreaker(BreakerKey, 0)
    /\ hasBreaker = FALSE
    /\ retryConfig = NoRetryConfig
    /\ transport = DefaultClientOutcomes
    /\ InitCalls
    /\ NoSetters
    /\ callbacks \in CallbackLists
    /\ maxConcurrent \in MaxConcurrentValues
    /\ dispatchCtxDone \in BOOLEAN
    /\ dpc = "start"
    /\ next = 1
    /\ sem = 0
    /\ task = [i \in Observers |-> "none"]
    /\ inner = [i \in Observers |-> "none"]
    /\ reports = [i \in Observers |-> {}]
    /\ crashed = FALSE
    /\ responses = [res |-> "body", responseCopy |-> "nil"]
    /\ seen = [i \in Observers |-> "none"]
    /\ channels = << >>
    /\ delivered = [i \in Observers |-> 0]
    /\ ctxAtCall = dispatchCtxDone

\* dispatch, lines 22 to 49: the one copy of the response, the callbacks
dispatch ==
    /\ ~crashed
    /\ dpc = "start"
    /\ responses' = [responses EXCEPT !.responseCopy = deepCopy(responses.res)]
    /\ dpc' = IF Len(callbacks) = 0 THEN "returned" ELSE "loop"
    /\ UNCHANGED << requestVars, channelVars, callbacks, maxConcurrent, dispatchCtxDone, next, sem,
                    task, inner, reports, crashed, seen >>

\* the top of the loop: no observer left, or ctx.Err() != nil, or on to the select
DispatchCheck ==
    /\ ~crashed
    /\ dpc = "loop"
    /\ dpc' = IF next > Len(callbacks) THEN "returned"
              ELSE IF dispatchCtxDone THEN "skippedAtCheck"
              ELSE "select"
    /\ UNCHANGED << requestVars, channelVars, callbacks, maxConcurrent, dispatchCtxDone, next, sem,
                    task, inner, reports, crashed, responses, seen >>

\* the select, case sem <- struct{}{}, and the go statement: executeCallback
\* runs up to its own select, the goroutine of the callback is started
DispatchAdmit ==
    /\ ~crashed
    /\ dpc = "select"
    /\ sem < maxConcurrent
    /\ sem' = sem + 1
    /\ task' = [task EXCEPT ![next] = "waiting"]
    /\ inner' = [inner EXCEPT ![next] = "ready"]
    /\ next' = next + 1
    /\ dpc' = "loop"
    /\ UNCHANGED << requestVars, channelVars, callbacks, maxConcurrent, dispatchCtxDone, reports,
                    crashed, responses, seen >>

\* the select, case <-ctx.Done()
DispatchCancelled ==
    /\ ~crashed
    /\ dpc = "select"
    /\ dispatchCtxDone
    /\ dpc' = "skippedAtSelect"
    /\ UNCHANGED << requestVars, channelVars, callbacks, maxConcurrent, dispatchCtxDone, next, sem,
                    task, inner, reports, crashed, responses, seen >>

\* the callback's goroutine that calls the callback whatever callbackCtx says
CallbackStartAlways(i) ==
    /\ ~crashed
    /\ inner[i] = "ready"
    /\ inner' = [inner EXCEPT ![i] = "running"]
    /\ seen' = [seen EXCEPT ![i] = responses.responseCopy]
    /\ UNCHANGED << requestVars, channelVars, callbacks, maxConcurrent, dispatchCtxDone, dpc, next,
                    sem, task, reports, crashed, responses >>

\* the callback's goroutine, lines 100 to 107: callbackCtx is done when ctx
\* is, or when executeCallback has returned (defer cancel()); else the
\* callback is called with the event, which points to responseCopy
CallbackStart(i) ==
    /\ ~crashed
    /\ inner[i] = "ready"
    /\ IF dispatchCtxDone \/ task[i] = "finished"
       THEN /\ inner' = [inner EXCEPT ![i] = "skipped"]
            /\ UNCHANGED seen
       ELSE /\ inner' = [inner EXCEPT ![i] = "running"]
            /\ seen' = [seen EXCEPT ![i] = responses.responseCopy]
    /\ UNCHANGED << requestVars, channelVars, callbacks, maxConcurrent, dispatchCtxDone, dpc, next,
                    sem, task, reports, crashed, responses >>

\* the callback returns: in time, or, the slow one, after executeCallback
\* has stopped waiting for it
CallbackReturns(i) ==
    /\ ~crashed
    /\ inner[i] = "running"
    /\ \/ callbacks[i] \in {"fast", "mutate"}
       \/ callbacks[i] = "slow" /\ task[i] = "finished"
    /\ inner' = [inner EXCEPT ![i] = "over"]
    /\ responses' = IF callbacks[i] = "mutate"
                    THEN [responses EXCEPT !.responseCopy = "changed"]
                    ELSE responses
    /\ UNCHANGED << requestVars, channelVars, callbacks, maxConcurrent, dispatchCtxDone, dpc, next,
                    sem, task, reports, crashed, seen >>

\* the callback panics, in the goroutine of line 100; the only recover() is in
\* the deferred function of executeCallback's goroutine
CallbackPanics(i) ==
    /\ ~crashed
    /\ inner[i] = "running"
    /\ callbacks[i] = "panic"
    /\ inner' = [inner EXCEPT ![i] = "panicked"]
    /\ IF recovers("executeCallback", "callback")
       THEN /\ reports' = [reports EXCEPT ![i] = @ \cup {"panic"}]
            /\ UNCHANGED crashed
       ELSE /\ crashed' = TRUE
            /\ UNCHANGED reports
    /\ UNCHANGED << requestVars, channelVars, callbacks, maxConcurrent, dispatchCtxDone, dpc, next,
                    sem, task, responses, seen >>

\* executeCallback's select, case <-done, and its deferred <-sem
TaskDone(i) ==
    /\ ~crashed
    /\ task[i] = "waiting"
    /\ inner[i] \in {"over", "skipped"}
    /\ task' = [task EXCEPT ![i] = "finished"]
    /\ sem' = sem - 1
    /\ UNCHANGED << requestVars, channelVars, callbacks, maxConcurrent, dispatchCtxDone, dpc, next,
                    inner, reports, crashed, responses, seen >>

\* executeCallback's select under a callbackCtx that has no timeout
TaskTimeoutOnCancelOnly(i) ==
    /\ ~crashed
    /\ task[i] = "waiting"
    /\ dispatchCtxDone
    /\ reports' = [reports EXCEPT ![i] = @ \cup {"timeout"}]
    /\ task' = [task EXCEPT ![i] = "finished"]
    /\ sem' = sem - 1
    /\ UNCHANGED << requestVars, channelVars, callbacks, maxConcurrent, dispatchCtxDone, dpc, next,
                    inner, crashed, responses, seen >>

\* executeCallback's select, case <-callbackCtx.Done(): ctx is cancelled, or
\* CallbackTimeout has passed with the slow callback still running; the error
\* is logged and the deferred <-sem runs
TaskTimeout(i) ==
    /\ ~crashed
    /\ task[i] = "waiting"
    /\ \/ dispatchCtxDone
       \/ callbacks[i] = "slow" /\ inner[i] = "running"
    /\ reports' = [reports EXCEPT ![i] = @ \cup {"timeout"}]
    /\ task' = [task EXCEPT ![i] = "finished"]
    /\ sem' = sem - 1
    /\ UNCHANGED << requestVars, channelVars, callbacks, maxConcurrent, dispatchCtxDone, dpc, next,
                    inner, crashed, responses, seen >>

\* the caller cancels the context the dispatch runs under
CancelDispatch ==
    /\ ~crashed
    /\ ~dispatchCtxDone
    /\ dpc # "start"
    /\ dispatchCtxDone' = TRUE
    /\ UNCHANGED << requestVars, channelVars, callbacks, maxConcurrent, dpc, next, sem, task, inner,
                    reports, crashed, responses, seen >>

\* dispatch has returned
DispatchOver == dpc \in {"returned", "skippedAtCheck", "skippedAtSelect"}

\* Request has returned res; its caller changes the Data of res
CallerMutates ==
    /\ ~crashed
    /\ DispatchOver
    /\ responses.res = "body"
    /\ responses' = [responses EXCEPT !.res = "edited"]
    /\ UNCHANGED << requestVars, channelVars, callbacks, maxConcurrent, dispatchCtxDone, dpc, next,
                    sem, task, inner, reports, crashed, seen >>

\* one dispatch to callback observers
NextDispatch ==
    \/ dispatch
    \/ DispatchCheck
    \/ DispatchAdmit
    \/ DispatchCancelled
    \/ CancelDispatch
    \/ CallerMutates
    \/ \E i \in 1 .. Len(callbacks) :
          \/ CallbackStart(i)
          \/ CallbackReturns(i)
          \/ CallbackPanics(i)
          \/ TaskDone(i)
          \/ TaskTimeout(i)

SpecDispatch == InitDispatch /\ [][NextDispatch]_vars

\* a dispatch to observers that return, in time or late, and never panic
InitDispatchLive ==
    /\ InitDispatch
    /\ \A i \in 1 .. Len(callbacks) : callbacks[i] \in {"fast", "slow"}

\* the steps of that dispatch
NextDispatchLive ==
    \/ dispatch
    \/ DispatchCheck
    \/ DispatchAdmit
    \/ DispatchCancelled
    \/ CancelDispatch
    \/ \E i \in 1 .. Len(callbacks) :
          \/ CallbackStart(i)
          \/ CallbackReturns(i)
          \/ TaskDone(i)
          \/ TaskTimeout(i)

\* the Go scheduler runs every goroutine that can run; nothing obliges the
\* caller to cancel
DispatchFairness ==
    /\ WF_vars(dispatch)
    /\ WF_vars(DispatchCheck)
    /\ WF_vars(DispatchAdmit)
    /\ WF_vars(DispatchCancelled)
    /\ \A i \in Observers :
          /\ WF_vars(CallbackStart(i))
          /\ WF_vars(CallbackReturns(i))
          /\ WF_vars(TaskDone(i))
          /\ WF_vars(TaskTimeout(i))

SpecDispatchLive == InitDispatchLive /\ [][NextDispatchLive]_vars /\ DispatchFairness

(* ----------------------------- channel dispatch ------------------------ *)

\* a registered channel by cap(ch) and len(ch); a channel accepts a send
\* while len < cap, and an unbuffered channel nobody receives from never does
ChannelStates == { [cap |-> c, len |-> l] : c \in 0 .. 2, l \in 0 .. 2 }

\* the channels registered on the Request with OnCompleted
ChannelLists ==
    UNION { [1 .. n -> { c \in ChannelStates : c.len <= c.cap }] : n \in 1 .. MaxObservers }

\* callback dispatch's variables, which channel dispatch leaves alone
callbackVars == << callbacks, maxConcurrent, sem, task, inner, crashed, seen >>

\* a finalized response about to be dispatched to the channels of its Request
InitChannels ==
    /\ now = 0
    /\ config = [FailureThreshold |-> 1, SuccessThreshold |-> 1, Timeout |-> 1,
                 HalfOpenMaxRequests |-> 1, WindowSize |-> 1]
    /\ cb = NewCircuitBreaker(BreakerKey, 0)
    /\ hasBreaker = FALSE
    /\ retryConfig = NoRetryConfig
    /\ transport = DefaultClientOutcomes
    /\ InitCalls
    /\ NoSetters
    /\ callbacks = << >>
    /\ maxConcurrent = 1
    /\ dispatchCtxDone \in BOOLEAN
    /\ dpc = "start"
    /\ next = 1
    /\ sem = 0
    /\ task = [i \in Observers |-> "none"]
    /\ inner = [i \in Observers |-> "none"]
    /\ reports = [i \in Observers |-> {}]
    /\ crashed = FALSE
    /\ responses = [res |-> "body", responseCopy |-> "nil"]
    /\ seen = [i \in Observers |-> "none"]
    /\ channels \in ChannelLists
    /\ delivered = [i \in Observers |-> 0]
    /\ ctxAtCall = dispatchCtxDone

\* channelDispatcher.dispatch, lines 76 to 89: the copy, the channels
channelDispatch ==
    /\ dpc = "start"
    /\ responses' = [responses EXCEPT !.responseCopy = deepCopy(responses.res)]
    /\ dpc' = IF Len(channels) = 0 THEN "returned" ELSE "loop"
    /\ UNCHANGED << requestVars, callbackVars, channelVars, dispatchCtxDone, next,
                    reports >>

\* the range loop is over
ChannelLoopEnd ==
    /\ dpc = "loop"
    /\ next > Len(channels)
    /\ dpc' = "returned"
    /\ UNCHANGED << requestVars, callbackVars, channelVars, dispatchCtxDone, next,
                    responses, reports >>

\* a select that has no default case: it waits for ctx or for room
ChannelSelectBlocking ==
    /\ dpc = "loop"
    /\ next <= Len(channels)
    /\ \/ /\ dispatchCtxDone
          /\ dpc' = "skippedAtSelect"
          /\ UNCHANGED << channels, delivered, next, reports >>
       \/ /\ channels[next].len < channels[next].cap
          /\ channels' = [channels EXCEPT ![next].len = @ + 1]
          /\ delivered' = [delivered EXCEPT ![next] = @ + 1]
          /\ next' = next + 1
          /\ UNCHANGED << dpc, reports >>
    /\ UNCHANGED << requestVars, callbackVars, ctxAtCall, dispatchCtxDone, responses >>

\* the select of lines 92 to 102 for one channel: Go takes any one of the
\* cases that are ready, <-ctx.Done() or ch <- event, and the default case
\* only when neither is
ChannelSelect ==
    /\ dpc = "loop"
    /\ next <= Len(channels)
    /\ LET ctxReady == dispatchCtxDone
           sendReady == channels[next].len < channels[next].cap
       IN  \/ /\ ctxReady
              /\ dpc' = "skippedAtSelect"
              /\ UNCHANGED << channels, delivered, next, reports >>
           \/ /\ sendReady
              /\ channels' = [channels EXCEPT ![next].len = @ + 1]
              /\ delivered' = [delivered EXCEPT ![next] = @ + 1]
              /\ next' = next + 1
              /\ UNCHANGED << dpc, reports >>
           \/ /\ ~ctxReady /\ ~sendReady
              /\ reports' = [reports EXCEPT ![next] = @ \cup {"dropped"}]
              /\ next' = next + 1
              /\ UNCHANGED << dpc, channels, delivered >>
    /\ UNCHANGED << requestVars, callbackVars, ctxAtCall, dispatchCtxDone, responses >>

\* a consumer takes an event from a channel
Receive(i) ==
    /\ channels[i].len > 0
    /\ channels' = [channels EXCEPT ![i].len = @ - 1]
    /\ UNCHANGED << requestVars, callbackVars, delivered, ctxAtCall, dispatchCtxDone,
                    dpc, next, responses, reports >>

\* one dispatch to channel observers
NextChannels ==
    \/ channelDispatch
    \/ ChannelLoopEnd
    \/ ChannelSelect
    \/ CancelDispatch
    \/ \E i \in 1 .. Len(channels) : Receive(i)

SpecChannels == InitChannels /\ [][NextChannels]_vars

(* ---------------------------- Request setters -------------------------- *)

\* a string is the tuple of its pieces; strconv.Itoa, and fmt.Sprintf("%v")
\* of an int, give the decimal string of n
Itoa(n) == << "decimal", n >>

\* the keys and values of the calls, as TestRequestThreadSafety builds them:
\* goroutine idx sets header "x-thread-idx" or param "param-idx"
HeaderKey(w) == << "x-thread-", Itoa(w) >>
ParamKey(w) == << "param-", Itoa(w) >>

\* m[k] = v on a Go map
MapSet(m, k, v) == [x \in (DOMAIN m) \cup {k} |-> IF x = k THEN v ELSE m[x]]

\* a value of type any: an int, or the map[string]string SetPathParam stores
AnyInt(n) == [type |-> "int", v |-> n]
AnyPathParams(m) == [type |-> "map[string]string", v |-> m]

\* fmt.Sprintf("%v", value): the decimal string of an int, map[k:v ...] of a map
Sprintf(value) ==
    IF value.type = "int" THEN Itoa(value.v) ELSE << "map[", value.v, "]" >>

\* the key SetPathParam and SetPathParams store the path params under
PathParamsKey == << "__path_params__" >>

\* the keys of the query params
QueryKeys == { << "limit" >>, << "page" >> }

\* every key a params map or a query can hold, in the byte order sort.Strings
\* gives them
KeyOrder == << PathParamsKey, << "limit" >>, << "page" >> >> \o [w \in Writers |-> ParamKey(w)]

\* url.Values.Set: the string s replaces the strings of key k
AddReplaces(values, k, s) == MapSet(values, k, << s >>)

\* url.Values.Add: the string s is appended to the strings of key k
Add(values, k, s) ==
    IF k \in DOMAIN values THEN [values EXCEPT ![k] = Append(@, s)]
    ELSE MapSet(values, k, << s >>)

\* for key, value := range params { urlParams.Add(key, Sprintf(value)) }
RECURSIVE AddParams(_, _, _)
AddParams(values, params, keys) ==
    IF keys = {} THEN values
    ELSE LET k == CHOOSE x \in keys : TRUE
         IN  AddParams(Add(values, k, Sprintf(params[k])), params, keys \ {k})

\* url.Values.Encode: the entries key=value, sorted by key, the strings of
\* one key in their order
RECURSIVE EncodeFrom(_, _)
EncodeFrom(values, i) ==
    IF i > Len(KeyOrder) THEN << >>
    ELSE LET k == KeyOrder[i]
         IN  (IF k \in DOMAIN values
              THEN [j \in 1 .. Len(values[k]) |-> << k, values[k][j] >>]
              ELSE << >>) \o EncodeFrom(values, i + 1)
Encode(values) == EncodeFrom(values, 1)

\* getUrlInstance: reqUrl parsed, each param added to its query, the query
\* encoded; or the error of url.Parse
getUrlInstance(reqUrl, params) ==
    IF ~reqUrl.ok
    THEN [err |-> TRUE, finalURL |-> UrlString(EmptyString, EmptyString)]
    ELSE [err |-> FALSE,
          finalURL |-> UrlString(reqUrl.path,
                                 Encode(AddParams(reqUrl.query, params, DOMAIN params)))]

\* the methods of a Request: http.NewRequest refuses one that is no token
Methods == {"GET", "bad method"}
NewRequestOk(method) == method = "GET"

\* Request.refreshUrl: r.url from r.baseURL and r.params unless getUrlInstance
\* fails, then the error of http.NewRequest
refreshUrl(r) ==
    LET u == getUrlInstance(r.baseURL, r.params.m)
    IN  IF u.err THEN [request |-> r, err |-> TRUE]
        ELSE [request |-> [r EXCEPT !.url = u.finalURL], err |-> ~NewRequestOk(r.method)]

\* the headers a Request holds after construction
InitialHeaders == [x \in {<< "User-Agent" >>} |-> << "vecto" >>]

\* a Request after construction, with a goroutine per call about to write to it
InitSetters ==
    /\ now = 0
    /\ config = [FailureThreshold |-> 1, SuccessThreshold |-> 1, Timeout |-> 1,
                 HalfOpenMaxRequests |-> 1, WindowSize |-> 1]
    /\ cb = NewCircuitBreaker(BreakerKey, 0)
    /\ hasBreaker = FALSE
    /\ retryConfig = NoRetryConfig
    /\ transport = DefaultClientOutcomes
    /\ InitCalls
    /\ NoDispatch
    /\ \E h \in {NilMap, MadeMap(<< >>), MadeMap(InitialHeaders)},
          q \in {NilMap, MadeMap(<< >>)} :
          request = [mu |-> 0, baseURL |-> PlainURL, method |-> "GET", headers |-> h,
                     params |-> q, url |-> UrlString(EmptyString, EmptyString)]
    /\ writers \in [Writers -> { [op |-> o, pc |-> "call", sawNil |-> FALSE] :
                                    o \in {"SetHeader", "SetParam"} }]

\* the map a call writes to
Target(w) == IF writers[w].op = "SetHeader" THEN request.headers ELSE request.params

\* r.mu.Lock() that lets a goroutine in while another holds the mutex
LockUnguarded(w) ==
    /\ writers[w].pc = "call"
    /\ request' = [request EXCEPT !.mu = w]
    /\ writers' = [writers EXCEPT ![w].pc = "locked"]
    /\ UNCHANGED << callVars, dispatchVars >>

\* r.mu.Lock(), in SetHeader and in SetParam
Lock(w) ==
    /\ writers[w].pc = "call"
    /\ request.mu = 0
    /\ request' = [request EXCEPT !.mu = w]
    /\ writers' = [writers EXCEPT ![w].pc = "locked"]
    /\ UNCHANGED << callVars, dispatchVars >>

\* if r.headers == nil, if r.params == nil: the test
CheckNil(w) ==
    /\ writers[w].pc = "locked"
    /\ writers' = [writers EXCEPT ![w].pc = "checked", ![w].sawNil = Target(w).isNil]
    /\ UNCHANGED << callVars, dispatchVars, request >>

\* the make of the map when the test found nil, and the assignment
Store(w) ==
    /\ writers[w].pc = "checked"
    /\ LET old == IF writers[w].sawNil THEN << >> ELSE Target(w).m
       IN  IF writers[w].op = "SetHeader"
           THEN request' = [request EXCEPT
                               !.headers = MadeMap(MapSet(old, HeaderKey(w), Itoa(w)))]
           ELSE request' = [request EXCEPT
                               !.params = MadeMap(MapSet(old, ParamKey(w), AnyInt(w)))]
    /\ writers' = [writers EXCEPT ![w].pc =
                      IF writers[w].op = "SetHeader" THEN "stored" ELSE "refresh"]
    /\ UNCHANGED << callVars, dispatchVars >>

\* refreshUrlUnsafe, called by SetParam: the URL of the params as they are
\* now, or an error and the URL left as it was
refreshUrlUnsafe(w) ==
    /\ writers[w].pc = "refresh"
    /\ request' = refreshUrl(request).request
    /\ writers' = [writers EXCEPT ![w].pc = "stored"]
    /\ UNCHANGED << callVars, dispatchVars >>

\* the deferred r.mu.Unlock()
Unlock(w) ==
    /\ writers[w].pc = "stored"
    /\ request' = [request EXCEPT !.mu = IF request.mu = w THEN 0 ELSE request.mu]
    /\ writers' = [writers EXCEPT ![w].pc = "done"]
    /\ UNCHANGED << callVars, dispatchVars >>

\* concurrent SetHeader and SetParam calls on one Request
NextSetters ==
    \E w \in Writers :
        \/ Lock(w)
        \/ CheckNil(w)
        \/ Store(w)
        \/ refreshUrlUnsafe(w)
        \/ Unlock(w)

SpecSetters == InitSetters /\ [][NextSetters]_vars

(* ------------------------------ Request URL ---------------------------- *)

\* the calls made on one requestBuilder and the Request it builds
MaxOps == 3

\* the URLs a builder is given: without a query, with one, and one url.Parse
\* refuses
QueryURL == [ok |-> TRUE, path |-> << "http://example.com/pets" >>,
             query |-> [k \in {<< "page" >>} |-> << Itoa(1) >>]]
InvalidURL == [ok |-> FALSE, path |-> << "://invalid" >>, query |-> << >>]
BaseURLs == {PlainURL, QueryURL, InvalidURL}

\* the arguments of the calls
ParamKeys == QueryKeys \cup {EmptyString}
ParamValues == {AnyInt(1), AnyInt(2)}
PathKeys == {<< "id" >>}
PathValues == {<< "7" >>, << "8" >>}
PathParamMaps == {<< >>} \cup { [k \in PathKeys |-> v] : v \in PathValues }

\* Request.SetParam as one step: the key checked, the map made when nil, the
\* entry stored, the URL refreshed, with the error returned
SetParam(r, key, value) ==
    IF key = EmptyString THEN [request |-> r, err |-> TRUE]
    ELSE refreshUrl([r EXCEPT !.params = MadeMap(MapSet(r.params.m, key, value))])

\* what is left alone by the calls on a builder and its Request
urlFrame == << baseVars, dispatchVars, writers, mgrVars, fn, chain, extraVars >>

\* newRequestBuilder(basePath, method)
InitUrl ==
    /\ now = 0
    /\ config = [FailureThreshold |-> 1, SuccessThreshold |-> 1, Timeout |-> 1,
                 HalfOpenMaxRequests |-> 1, WindowSize |-> 1]
    /\ cb = NewCircuitBreaker(BreakerKey, 0)
    /\ hasBreaker = FALSE
    /\ retryConfig = NoRetryConfig
    /\ transport = DefaultClientOutcomes
    /\ InitLocals
    /\ NoManager
    /\ NoFunction
    /\ NoMiddleware
    /\ NoKeyed
    /\ NoDispatch
    /\ writers = [w \in Writers |-> [op |-> "none", pc |-> "done", sawNil |-> FALSE]]
    /\ \E b \in BaseURLs, m \in Methods :
          request = [mu |-> 0, baseURL |-> b, method |-> m, headers |-> MadeMap(<< >>),
                     params |-> MadeMap(<< >>),
                     url |-> UrlString(EmptyString, EmptyString)]
    /\ builder = [state |-> "building", err |-> FALSE, ops |-> 0,
                  op |-> "newRequestBuilder", ret |-> FALSE,
                  sent |-> UrlString(EmptyString, EmptyString)]

\* requestBuilder.SetParam: nothing once b.err is set, else Request.SetParam
\* and its error kept in b.err
BuilderSetParam(key, value) ==
    /\ builder.state = "building"
    /\ builder.ops < MaxOps
    /\ LET r == SetParam(request, key, value)
       IN  /\ request' = IF builder.err THEN request ELSE r.request
           /\ builder' = [builder EXCEPT !.err = builder.err \/ r.err,
                                         !.ops = @ + 1, !.op = "builder.SetParam",
                                         !.ret = FALSE]
    /\ UNCHANGED urlFrame

\* requestBuilder.Build: b.err, or the error of refreshUrl, or the Request
Build ==
    /\ builder.state = "building"
    /\ LET r == refreshUrl(request)
       IN  /\ request' = IF builder.err THEN request ELSE r.request
           /\ builder' = [builder EXCEPT
                             !.state = IF builder.err \/ r.err THEN "failed" ELSE "built",
                             !.op = "Build", !.ret = builder.err \/ r.err]
    /\ UNCHANGED urlFrame

\* Request.SetParam on the built Request
RequestSetParam(key, value) ==
    /\ builder.state = "built"
    /\ builder.ops < MaxOps
    /\ LET r == SetParam(request, key, value)
       IN  /\ request' = r.request
           /\ builder' = [builder EXCEPT !.ops = @ + 1, !.op = "SetParam",
                                         !.ret = r.err]
    /\ UNCHANGED urlFrame

\* the map[string]string r.params holds under PathParamsKey, when it holds one
pathParamsOf(params) ==
    IF PathParamsKey \in DOMAIN params /\ params[PathParamsKey].type = "map[string]string"
    THEN [ok |-> TRUE, pathParams |-> params[PathParamsKey].v]
    ELSE [ok |-> FALSE, pathParams |-> << >>]

\* Request.SetPathParam: the entry stored in the map under PathParamsKey
SetPathParam(key, value) ==
    /\ builder.state = "built"
    /\ builder.ops < MaxOps
    /\ LET old == pathParamsOf(request.params.m).pathParams
       IN  request' = [request EXCEPT !.params =
                          MadeMap(MapSet(request.params.m, PathParamsKey,
                                         AnyPathParams(MapSet(old, key, value))))]
    /\ builder' = [builder EXCEPT !.ops = @ + 1, !.op = "SetPathParam", !.ret = FALSE]
    /\ UNCHANGED urlFrame

\* Request.SetPathParams: a copy of the map stored under PathParamsKey
SetPathParams(params) ==
    /\ builder.state = "built"
    /\ builder.ops < MaxOps
    /\ request' = [request EXCEPT !.params =
                       MadeMap(MapSet(request.params.m, PathParamsKey,
                                      AnyPathParams(params)))]
    /\ builder' = [builder EXCEPT !.ops = @ + 1, !.op = "SetPathParams", !.ret = FALSE]
    /\ UNCHANGED urlFrame

\* Request.toHTTPRequest: the http.Request for the transport, made of r.url
toHTTPRequest ==
    /\ builder.state = "built"
    /\ builder.op # "toHTTPRequest"
    /\ builder' = [builder EXCEPT !.op = "toHTTPRequest", !.ret = FALSE,
                                  !.sent = request.url]
    /\ UNCHANGED << urlFrame, request >>

\* a builder filled and built, then calls on its Request and reads of it
NextUrl ==
    \/ \E key \in ParamKeys, value \in ParamValues : BuilderSetParam(key, value)
    \/ Build
    \/ \E key \in ParamKeys, value \in ParamValues : RequestSetParam(key, value)
    \/ \E key \in PathKeys, value \in PathValues : SetPathParam(key, value)
    \/ \E params \in PathParamMaps : SetPathParams(params)
    \/ toHTTPRequest

SpecUrl == InitUrl /\ [][NextUrl]_vars

(* ------------------------ CircuitBreakerManager ------------------------ *)

\* the keys GetOrCreate is called with, and its config argument: nil or an
\* override
ManagerKeys == {"key1", "key2"}
OverrideConfigs == {"nil", "override"}

\* what is left alone by the calls on a manager
mgrFrame == << baseVars, dispatchVars, setterVars, builder, fn, chain, extraVars >>

\* NewCircuitBreakerManager, and a goroutine per GetOrCreate call
InitManager ==
    /\ now = 0
    /\ config = [FailureThreshold |-> 1, SuccessThreshold |-> 1, Timeout |-> 1,
                 HalfOpenMaxRequests |-> 1, WindowSize |-> 1]
    /\ cb = NewCircuitBreaker(BreakerKey, 0)
    /\ hasBreaker = FALSE
    /\ retryConfig = NoRetryConfig
    /\ transport = DefaultClientOutcomes
    /\ InitLocals
    /\ NoBuilder
    /\ NoFunction
    /\ NoMiddleware
    /\ NoKeyed
    /\ NoSetters
    /\ NoDispatch
    /\ mgr = [readers |-> 0, writer |-> 0, breakers |-> << >>, made |-> << >>]
    /\ getters \in [Getters -> { [pc |-> "call", key |-> k, config |-> c,
                                   exists |-> FALSE, ret |-> 0] :
                                     k \in ManagerKeys, c \in OverrideConfigs }]

\* m.mu.RLock()
ManagerRLock(g) ==
    /\ getters[g].pc = "call"
    /\ mgr.writer = 0
    /\ mgr' = [mgr EXCEPT !.readers = @ + 1]
    /\ getters' = [getters EXCEPT ![g].pc = "rlocked"]
    /\ UNCHANGED mgrFrame

\* breaker, exists := m.breakers[key], under the read lock
FirstCheck(g) ==
    /\ getters[g].pc = "rlocked"
    /\ LET found == getters[g].key \in DOMAIN mgr.breakers
       IN  getters' = [getters EXCEPT
                          ![g].pc = "checked", ![g].exists = found,
                          ![g].ret = IF found THEN mgr.breakers[getters[g].key] ELSE 0]
    /\ UNCHANGED << mgrFrame, mgr >>

\* m.mu.RUnlock(), and the return of the breaker found
ManagerRUnlock(g) ==
    /\ getters[g].pc = "checked"
    /\ mgr' = [mgr EXCEPT !.readers = @ - 1]
    /\ getters' = [getters EXCEPT ![g].pc = IF getters[g].exists THEN "returned"
                                            ELSE "unlocked"]
    /\ UNCHANGED mgrFrame

\* m.mu.Lock()
ManagerLock(g) ==
    /\ getters[g].pc = "unlocked"
    /\ mgr.readers = 0
    /\ mgr.writer = 0
    /\ mgr' = [mgr EXCEPT !.writer = g]
    /\ getters' = [getters EXCEPT ![g].pc = "locked"]
    /\ UNCHANGED mgrFrame

\* the breaker GetOrCreate constructs: the override config when one is given,
\* else the manager's default
newBreaker(g) ==
    [id |-> Len(mgr.made) + 1, key |-> getters[g].key,
     config |-> IF getters[g].config # "nil" THEN getters[g].config ELSE "default"]

\* lines 409 to 426 without the second look at m.breakers
CreateUnchecked(g) ==
    /\ getters[g].pc = "locked"
    /\ mgr' = [mgr EXCEPT !.breakers = MapSet(@, getters[g].key, newBreaker(g)),
                          !.made = Append(@, newBreaker(g))]
    /\ getters' = [getters EXCEPT ![g].pc = "stored", ![g].ret = newBreaker(g)]
    /\ UNCHANGED mgrFrame

\* lines 409 to 426, under the write lock: the breaker of the key if there
\* is one by now, else a new one, stored
GetOrCreateLocked(g) ==
    /\ getters[g].pc = "locked"
    /\ IF getters[g].key \in DOMAIN mgr.breakers
       THEN /\ getters' = [getters EXCEPT ![g].pc = "stored",
                                          ![g].ret = mgr.breakers[getters[g].key]]
            /\ mgr' = mgr
       ELSE /\ mgr' = [mgr EXCEPT !.breakers = MapSet(@, getters[g].key, newBreaker(g)),
                                  !.made = Append(@, newBreaker(g))]
            /\ getters' = [getters EXCEPT ![g].pc = "stored", ![g].ret = newBreaker(g)]
    /\ UNCHANGED mgrFrame

\* the deferred m.mu.Unlock()
ManagerUnlock(g) ==
    /\ getters[g].pc = "stored"
    /\ mgr' = [mgr EXCEPT !.writer = 0]
    /\ getters' = [getters EXCEPT ![g].pc = "returned"]
    /\ UNCHANGED mgrFrame

\* concurrent GetOrCreate calls on one manager
NextManager ==
    \E g \in Getters :
        \/ ManagerRLock(g)
        \/ FirstCheck(g)
        \/ ManagerRUnlock(g)
        \/ ManagerLock(g)
        \/ GetOrCreateLocked(g)
        \/ ManagerUnlock(g)

SpecManager == InitManager /\ [][NextManager]_vars

(* ------------------------- callers that keep calling ------------------- *)

\* the configurations the HalfOpen period is followed under
ProbeConfigs ==
    { c \in CircuitBreakerConfigs :
         c.FailureThreshold = 1 /\ c.Timeout = 1 /\ c.WindowSize = 1 }

InitLive ==
    /\ now = 0
    /\ config \in ProbeConfigs
    /\ cb = NewCircuitBreaker(BreakerKey, 0)
    /\ hasBreaker = TRUE
    /\ retryConfig = NoRetryConfig
    /\ transport = DefaultClientOutcomes
    /\ InitCalls
    /\ NoSetters
    /\ NoDispatch

\* the Go scheduler runs every goroutine that can run, so a call that has
\* begun goes on to its end, and callers keep making calls; nothing obliges
\* time to pass
CallFairness ==
    \A p \in Procs :
        /\ WF_vars(Execute(p))
        /\ WF_vars(Rejected(p))
        /\ WF_vars(executeRequest(p))
        /\ WF_vars(Do(p))
        /\ WF_vars(ExecuteReturns(p))
        /\ WF_vars(RequestFails(p))
        /\ WF_vars(RequestRecords(p))
        /\ WF_vars(Return(p))

SpecLive == InitLive /\ [][Next]_vars /\ CallFairness

(* ------------------------- state change callback ---------------------- *)

\* the configurations the callback is watched under
NotifyConfigs ==
    { c \in CircuitBreakerConfigs : c.Timeout = 1 /\ c.WindowSize = 1 }

\* callers sharing a breaker that has an OnStateChange callback
InitNotify ==
    /\ now = 0
    /\ config \in NotifyConfigs
    /\ cb = WithOnStateChange(NewCircuitBreaker(BreakerKey, 0))
    /\ hasBreaker = TRUE
    /\ retryConfig = NoRetryConfig
    /\ transport = DefaultClientOutcomes
    /\ InitCalls
    /\ NoSetters
    /\ NoDispatch

SpecNotify == InitNotify /\ [][Next]_vars

(* --------------------------- breaker key cache ------------------------- *)

\* the scheme and host a Request can have after url.Parse
Schemes == {"", "https"}
Hosts == {"", "example.com"}

\* what getOrSetCircuitBreakerKey leaves alone
keyFrame == << baseVars, dispatchVars, setterVars, builder, mgrVars, fn, chain >>

\* getCircuitBreakerKey from the scheme and host it has read
getCircuitBreakerKey(scheme, host) ==
    IF host = "" THEN << "default" >>
    ELSE IF scheme = "" THEN << host >>
    ELSE << scheme, "://", host >>

\* a Request whose key is not cached yet, and goroutines of Vecto.Request that
\* are about to ask for it
InitKey ==
    /\ now = 0
    /\ config = [FailureThreshold |-> 1, SuccessThreshold |-> 1, Timeout |-> 1,
                 HalfOpenMaxRequests |-> 1, WindowSize |-> 1]
    /\ cb = NewCircuitBreaker(BreakerKey, 0)
    /\ hasBreaker = TRUE
    /\ retryConfig = NoRetryConfig
    /\ transport = DefaultClientOutcomes
    /\ InitLocals
    /\ NoBuilder
    /\ NoManager
    /\ NoFunction
    /\ NoMiddleware
    /\ NoSetters
    /\ NoDispatch
    /\ \E s \in Schemes, h \in Hosts :
          keyed = [mu |-> [writer |-> 0, readers |-> {}], scheme |-> s, host |-> h,
                   cbKey |-> << >>, cbKeyCached |-> FALSE, computed |-> 0,
                   g |-> [g \in Getters |-> [pc |-> "call", site |-> "none",
                                             scheme |-> "", ret |-> << >>]]]

\* req.mu.RLock(): at the top of getOrSetCircuitBreakerKey, in req.Scheme()
\* and in req.Host(); it waits while a goroutine holds the write lock
KeyRLock(g) ==
    /\ keyed.g[g].pc \in {"call", "Scheme", "Host"}
    /\ keyed.mu.writer = 0
    /\ keyed' = [keyed EXCEPT !.mu.readers = @ \cup {g},
                              !.g[g].pc = "rlocked",
                              !.g[g].site = keyed.g[g].pc]
    /\ UNCHANGED keyFrame

\* under the read lock, up to RUnlock and what follows it without a lock
\* request: the test of cbKeyCached; the read in Scheme(); the read in
\* Host(), after which getCircuitBreakerKey returns, the key is stored and
\* the deferred Unlock runs
KeyRead(g) ==
    /\ keyed.g[g].pc = "rlocked"
    /\ LET site == keyed.g[g].site
           key == getCircuitBreakerKey(keyed.g[g].scheme, keyed.host)
       IN  keyed' =
              IF site = "call"
              THEN IF keyed.cbKeyCached
                   THEN [keyed EXCEPT !.mu.readers = @ \ {g},
                                      !.g[g].pc = "returned",
                                      !.g[g].ret = Append(@, keyed.cbKey)]
                   ELSE [keyed EXCEPT !.mu.readers = @ \ {g},
                                      !.g[g].pc = "miss"]
              ELSE IF site = "Scheme"
              THEN [keyed EXCEPT !.mu.readers = @ \ {g},
                                 !.g[g].scheme = keyed.scheme,
                                 !.g[g].pc = "Host"]
              ELSE [keyed EXCEPT !.mu.readers = @ \ {g},
                                 !.mu.writer = 0,
                                 !.cbKey = key,
                                 !.cbKeyCached = TRUE,
                                 !.computed = @ + 1,
                                 !.g[g].pc = "returned",
                                 !.g[g].ret = Append(@, key)]
    /\ UNCHANGED keyFrame

\* req.mu.Lock() after the miss
KeyLock(g) ==
    /\ keyed.g[g].pc = "miss"
    /\ keyed.mu.writer = 0
    /\ keyed.mu.readers = {}
    /\ keyed' = [keyed EXCEPT !.mu.writer = g, !.g[g].pc = "locked"]
    /\ UNCHANGED keyFrame

\* under the write lock: the second test of cbKeyCached; when the key is
\* still missing getCircuitBreakerKey is called, which begins with
\* req.Scheme()
KeySecondCheck(g) ==
    /\ keyed.g[g].pc = "locked"
    /\ keyed' =
          IF keyed.cbKeyCached
          THEN [keyed EXCEPT !.mu.writer = 0,
                             !.g[g].pc = "returned",
                             !.g[g].ret = Append(@, keyed.cbKey)]
          ELSE [keyed EXCEPT !.g[g].pc = "Scheme"]
    /\ UNCHANGED keyFrame

NextKey ==
    \E g \in Getters :
        \/ KeyRLock(g)
        \/ KeyRead(g)
        \/ KeyLock(g)
        \/ KeySecondCheck(g)

\* every goroutine that can take a step gets to take one
SpecKey == InitKey /\ [][NextKey]_vars /\ WF_vars(NextKey)

(* ------------------------- breaker statistics -------------------------- *)

\* callers sharing a breaker whose statistics are read while they call
InitStats ==
    /\ now = 0
    /\ config \in CircuitBreakerConfigs
    /\ cb = NewCircuitBreaker(BreakerKey, 0)
    /\ hasBreaker = TRUE
    /\ retryConfig = NoRetryConfig
    /\ transport = DefaultClientOutcomes
    /\ InitCalls
    /\ NoSetters
    /\ NoDispatch

\* what GetStats leaves alone, the breaker apart
statsFrame == << now, config, hasBreaker, retryConfig, transport, pc, retryVars, res,
                err, ctxDone, closedFailures, halfOpenResults, enteredAt, probe,
                checks, gate, records, last, dispatchVars, setterVars, builder,
                mgrVars, chain, extraVars >>

\* GetStats that prunes the breaker's own failure list
GetStatsInPlace(b, t) ==
    LET pruned == cleanupOldFailures(b, t)
    IN  [ cb |-> pruned,
          stats |-> [ State |-> b.state,
                      FailureCount |-> Len(pruned.failures),
                      LastFailureTime |-> b.lastFailureTime,
                      HalfOpenRequests |-> b.halfOpenRequests,
                      ConsecutiveSuccesses |-> b.consecutiveSuccesses,
                      StateChangeTime |-> b.stateChangeTime ] ]

\* GetStats at time t: the statistics, and the breaker after the call;
\* cleanupOldFailures runs on cbCopy, which holds a copy of the failure list
GetStats(b, t) ==
    LET cbCopy == cleanupOldFailures([failures |-> b.failures], t)
    IN  [ cb |-> b,
          stats |-> [ State |-> b.state,
                      FailureCount |-> Len(cbCopy.failures),
                      LastFailureTime |-> b.lastFailureTime,
                      HalfOpenRequests |-> b.halfOpenRequests,
                      ConsecutiveSuccesses |-> b.consecutiveSuccesses,
                      StateChangeTime |-> b.stateChangeTime ] ]

\* a call of cb.GetStats(), under the read lock
CallGetStats ==
    /\ cb' = GetStats(cb, now).cb
    /\ fn' = [name |-> "GetStats", stats |-> GetStats(cb, now).stats]
    /\ UNCHANGED statsFrame

\* callers sharing a breaker, one call each, and a reader of its statistics
NextStats ==
    \/ Tick
    \/ CallGetStats
    \/ \E p \in Procs :
          \/ Execute(p)
          \/ Rejected(p)
          \/ executeRequest(p)
          \/ Do(p)
          \/ ExecuteReturns(p)
          \/ RequestFails(p)
          \/ RequestRecords(p)

SpecStats == InitStats /\ [][NextStats]_vars

(* --------------------------- request middleware ------------------------ *)

\* a middleware by what it does: returns the Request it was given, returns
\* another one, or returns an error
MiddlewareKinds == {"pass", "replace", "fail"}

\* the middlewares UseRequest has registered, in the order of the calls
MiddlewareLists ==
    UNION { [1 .. n -> MiddlewareKinds] : n \in 0 .. MaxMiddlewares }

\* the error middleware i returns, and Request's error that wraps it
MiddlewareFailure(i) == [kind |-> "mw", index |-> i]
MiddlewareError(cause) == [kind |-> "middleware", cause |-> cause]

\* the Request middleware i returns when given req: a Request is the
\* sequence of the middlewares that replaced it
mwResult(i, req) ==
    IF chain.requestMW[i] = "replace" THEN Append(req, i) ELSE req

\* what is left alone by interceptRequest
mwFrame == << now, config, cb, hasBreaker, retryConfig, transport, retryVars, ctxDone,
             breakerVars, dispatchVars, setterVars, builder, mgrVars, fn, extraVars >>

\* a client with a breaker and request middlewares; each caller has built its
\* Request and is about to call interceptRequest
InitMiddleware ==
    /\ now = 0
    /\ config = [FailureThreshold |-> 1, SuccessThreshold |-> 1, Timeout |-> 1,
                 HalfOpenMaxRequests |-> 1, WindowSize |-> 1]
    /\ cb = NewCircuitBreaker(BreakerKey, 0)
    /\ hasBreaker = TRUE
    /\ retryConfig = NoRetryConfig
    /\ transport = DefaultClientOutcomes
    /\ pc = [p \in Procs |-> "intercept"]
    /\ attempt = [p \in Procs |-> 0]
    /\ lastResponse = [p \in Procs |-> NilResponse]
    /\ lastErr = [p \in Procs |-> ErrNil]
    /\ res = [p \in Procs |-> NilResponse]
    /\ err = [p \in Procs |-> ErrNil]
    /\ ctxDone = [p \in Procs |-> FALSE]
    /\ hist = [p \in Procs |-> << >>]
    /\ checks = [p \in Procs |-> 0]
    /\ gate = [p \in Procs |-> "none"]
    /\ records = [p \in Procs |-> << >>]
    /\ probe = [p \in Procs |-> FALSE]
    /\ closedFailures = << >>
    /\ halfOpenResults = 0
    /\ enteredAt = 0
    /\ last = NoStep
    /\ NoBuilder
    /\ NoManager
    /\ NoFunction
    /\ NoKeyed
    /\ NoSetters
    /\ NoDispatch
    /\ \E l \in MiddlewareLists :
          chain = [requestMW |-> l, ran |-> [p \in Procs |-> << >>],
                   req |-> [p \in Procs |-> << >>]]

\* one turn of interceptRequest's loop that goes on after an error
RunMiddlewareIgnoresError(p) ==
    /\ pc[p] = "intercept"
    /\ Len(chain.ran[p]) < Len(chain.requestMW)
    /\ LET i == Len(chain.ran[p]) + 1
       IN  chain' = [chain EXCEPT
                        !.ran[p] = Append(@, [mw |-> i, req |-> chain.req[p]]),
                        !.req[p] = mwResult(i, chain.req[p])]
    /\ UNCHANGED << mwFrame, pc, res, err >>

\* one turn of interceptRequest's loop: the next middleware is called with
\* resultReq; on its error interceptRequest returns it and Request returns
\* nil and the error, wrapped
RunMiddleware(p) ==
    /\ pc[p] = "intercept"
    /\ Len(chain.ran[p]) < Len(chain.requestMW)
    /\ LET i == Len(chain.ran[p]) + 1
       IN  /\ chain' = [chain EXCEPT
                           !.ran[p] = Append(@, [mw |-> i, req |-> chain.req[p]]),
                           !.req[p] = mwResult(i, chain.req[p])]
           /\ IF chain.requestMW[i] = "fail"
              THEN /\ pc' = [pc EXCEPT ![p] = "done"]
                   /\ res' = [res EXCEPT ![p] = NilResponse]
                   /\ err' = [err EXCEPT ![p] = MiddlewareError(MiddlewareFailure(i))]
              ELSE UNCHANGED << pc, res, err >>
    /\ UNCHANGED mwFrame

\* interceptRequest returns resultReq after the last middleware, and Request
\* goes on to the breaker
Intercepted(p) ==
    /\ pc[p] = "intercept"
    /\ Len(chain.ran[p]) = Len(chain.requestMW)
    /\ pc' = [pc EXCEPT ![p] = "idle"]
    /\ UNCHANGED << mwFrame, chain, res, err >>

\* callers of Request on a client with request middlewares, one call each
NextMiddleware ==
    \E p \in Procs :
        \/ RunMiddleware(p)
        \/ Intercepted(p)
        \/ Execute(p)
        \/ Rejected(p)
        \/ executeRequest(p)
        \/ Do(p)
        \/ ExecuteReturns(p)
        \/ RequestFails(p)
        \/ RequestRecords(p)

SpecMiddleware == InitMiddleware /\ [][NextMiddleware]_vars

(* ------------------------ a call up to its observers ------------------- *)

\* the caller whose Request holds the completion observers; the Request of
\* the other caller holds none
ObservedCaller == "g1"

\* observers that return at once
FastLists == { c \in CallbackLists : \A i \in DOMAIN c : c[i] = "fast" }

\* Request's error when a response middleware fails
ResponseMiddlewareError == [kind |-> "response middleware"]

\* what the end of Request leaves alone, dpc apart
endFrame == << now, config, cb, hasBreaker, retryConfig, transport, retryVars, ctxDone,
              breakerVars, setterVars, lateVars, callbacks, maxConcurrent,
              dispatchCtxDone, next, sem, task, inner, reports, crashed, responses,
              seen, channelVars >>

\* two callers of Request on a client with a breaker and request
\* middlewares, each about to call interceptRequest; dispatch has not been
\* called
InitComplete ==
    /\ now = 0
    /\ config = [FailureThreshold |-> 1, SuccessThreshold |-> 1, Timeout |-> 1,
                 HalfOpenMaxRequests |-> 1, WindowSize |-> 1]
    /\ cb = NewCircuitBreaker(BreakerKey, 0)
    /\ hasBreaker = TRUE
    /\ retryConfig = NoRetryConfig
    /\ transport = DefaultClientOutcomes
    /\ pc = [p \in Procs |-> "intercept"]
    /\ attempt = [p \in Procs |-> 0]
    /\ lastResponse = [p \in Procs |-> NilResponse]
    /\ lastErr = [p \in Procs |-> ErrNil]
    /\ res = [p \in Procs |-> NilResponse]
    /\ err = [p \in Procs |-> ErrNil]
    /\ ctxDone = [p \in Procs |-> FALSE]
    /\ hist = [p \in Procs |-> << >>]
    /\ checks = [p \in Procs |-> 0]
    /\ gate = [p \in Procs |-> "none"]
    /\ records = [p \in Procs |-> << >>]
    /\ probe = [p \in Procs |-> FALSE]
    /\ closedFailures = << >>
    /\ halfOpenResults = 0
    /\ enteredAt = 0
    /\ last = NoStep
    /\ NoBuilder
    /\ NoManager
    /\ NoFunction
    /\ NoKeyed
    /\ NoSetters
    /\ \E l \in MiddlewareLists :
          chain = [requestMW |-> l, ran |-> [p \in Procs |-> << >>],
                   req |-> [p \in Procs |-> << >>]]
    /\ callbacks \in FastLists
    /\ maxConcurrent \in MaxConcurrentValues
    /\ dispatchCtxDone = FALSE
    /\ dpc = "waiting"
    /\ next = 1
    /\ sem = 0
    /\ task = [i \in Observers |-> "none"]
    /\ inner = [i \in Observers |-> "none"]
    /\ reports = [i \in Observers |-> {}]
    /\ crashed = FALSE
    /\ responses = [res |-> "body", responseCopy |-> "nil"]
    /\ seen = [i \in Observers |-> "none"]
    /\ channels = << >>
    /\ delivered = [i \in Observers |-> 0]
    /\ ctxAtCall = FALSE

\* interceptResponse whose error does not end Request
InterceptResponseGoesOn(p) ==
    /\ pc[p] = "done"
    /\ err[p] = ErrNil
    /\ \E fails \in BOOLEAN :
          IF fails
          THEN /\ res' = [res EXCEPT ![p] = NilResponse]
               /\ err' = [err EXCEPT ![p] = ResponseMiddlewareError]
          ELSE UNCHANGED << res, err >>
    /\ pc' = [pc EXCEPT ![p] = "dispatch"]
    /\ UNCHANGED << endFrame, dpc >>

\* Request after RecordResult: interceptResponse; a response middleware that
\* fails ends Request with nil and the error, wrapped
InterceptResponse(p) ==
    /\ pc[p] = "done"
    /\ err[p] = ErrNil
    /\ \E fails \in BOOLEAN :
          IF fails
          THEN /\ res' = [res EXCEPT ![p] = NilResponse]
               /\ err' = [err EXCEPT ![p] = ResponseMiddlewareError]
               /\ pc' = [pc EXCEPT ![p] = "ended"]
          ELSE /\ pc' = [pc EXCEPT ![p] = "dispatch"]
               /\ UNCHANGED << res, err >>
    /\ UNCHANGED << endFrame, dpc >>

\* v.callbackDispatcher.dispatch(ctx, resultRes) is called
RequestDispatch(p) ==
    /\ pc[p] = "dispatch"
    /\ dpc' = IF p = ObservedCaller THEN "start" ELSE dpc
    /\ pc' = [pc EXCEPT ![p] = "dispatching"]
    /\ UNCHANGED << endFrame, res, err >>

\* dispatch has returned: recordMetrics, and Request returns the response
RequestReturns(p) ==
    /\ pc[p] = "dispatching"
    /\ p = ObservedCaller => dpc = "returned"
    /\ pc' = [pc EXCEPT ![p] = "ended"]
    /\ UNCHANGED << endFrame, dpc, res, err >>

NextComplete ==
    \/ dispatch
    \/ DispatchCheck
    \/ DispatchAdmit
    \/ \E i \in 1 .. Len(callbacks) :
          \/ CallbackStart(i)
          \/ CallbackReturns(i)
          \/ TaskDone(i)
    \/ \E p \in Procs :
          \/ RunMiddleware(p)
          \/ Intercepted(p)
          \/ Execute(p)
          \/ Rejected(p)
          \/ executeRequest(p)
          \/ Do(p)
          \/ ExecuteReturns(p)
          \/ RequestFails(p)
          \/ RequestRecords(p)
          \/ InterceptResponse(p)
          \/ RequestDispatch(p)
          \/ RequestReturns(p)

SpecComplete == InitComplete /\ [][NextComplete]_vars

(* ------------------------- functions on their own ---------------------- *)

\* what is left alone by a call of a function on its own
fnFrame == << baseVars, dispatchVars, setterVars, builder, mgrVars, chain, extraVars >>

\* everything but fn before such a call
InitRest ==
    /\ now = 0
    /\ config = [FailureThreshold |-> 1, SuccessThreshold |-> 1, Timeout |-> 1,
                 HalfOpenMaxRequests |-> 1, WindowSize |-> 1]
    /\ cb = NewCircuitBreaker(BreakerKey, 0)
    /\ hasBreaker = FALSE
    /\ retryConfig = NoRetryConfig
    /\ transport = DefaultClientOutcomes
    /\ InitLocals
    /\ NoBuilder
    /\ NoManager
    /\ NoMiddleware
    /\ NoKeyed
    /\ NoSetters
    /\ NoDispatch

\* the status codes of a response
StatusCodes == 100 .. 599

\* the arguments of ShouldTrip: a response or nil, an error or nil
InitShouldTrip ==
    /\ InitRest
    /\ \E r \in {NilResponse} \cup { Response(code, FALSE) : code \in StatusCodes },
          e \in {ErrNil, ErrNet, ErrOther} :
          fn = [name |-> "args", res |-> r, err |-> e, out |-> FALSE]

\* config.ShouldTrip(res, err) with the default predicate
ShouldTrip ==
    /\ fn.name = "args"
    /\ fn' = [fn EXCEPT !.name = "defaultShouldTrip",
                        !.out = defaultShouldTrip(fn.res, fn.err)]
    /\ UNCHANGED fnFrame

SpecShouldTrip == InitShouldTrip /\ [][ShouldTrip]_vars

(* -------------------------------- backoff ------------------------------ *)

\* time.Duration: a signed integer of DurationBits bits, whose arithmetic
\* wraps around
MaxDuration == 2 ^ (DurationBits - 1) - 1
MinDuration == -(2 ^ (DurationBits - 1))
Wrap(x) == ((x - MinDuration) % (2 ^ DurationBits)) + MinDuration

\* time.Second, in the unit of the scaled Duration
Second == 4

\* time.Duration(f) of a float64: f when a Duration can hold it, else a value
\* that depends on the build, the smallest or the largest Duration
ToDuration(f) == IF f <= MaxDuration THEN {f} ELSE {MinDuration, MaxDuration}

\* the value a backoff function returns for the wait it computed
capped(wait, c) == IF c.MaxWaitTime > 0 /\ wait > c.MaxWaitTime THEN c.MaxWaitTime ELSE wait

\* ExponentialBackoff: what it can return
ExponentialBackoff(n, c) ==
    IF c.isNil \/ c.WaitTime <= 0 THEN {Second}
    ELSE { capped(Wrap(c.WaitTime * d), c) : d \in ToDuration(2 ^ (n - 1)) }

\* LinearBackoff
LinearBackoff(n, c) ==
    IF c.isNil \/ c.WaitTime <= 0 THEN {Second}
    ELSE { capped(Wrap(c.WaitTime * n), c) }

\* FixedBackoff
FixedBackoff(n, c) ==
    IF c.isNil \/ c.WaitTime <= 0 THEN {Second} ELSE {c.WaitTime}

\* the backoff functions a RetryConfig can name, nil for none
BackoffFuncs == {"nil", "ExponentialBackoff", "LinearBackoff", "FixedBackoff"}
backoff(name, n, c) ==
    CASE name = "LinearBackoff" -> LinearBackoff(n, c)
      [] name = "FixedBackoff" -> FixedBackoff(n, c)
      [] OTHER -> ExponentialBackoff(n, c)

\* what a custom RetryAfter function can return
CustomWaits == {0, Second}

\* getRetryWaitTime: what it can return, retryAfter being what
\* parseRetryAfterHeader made of the response
getRetryWaitTime(n, c, retryAfter) ==
    IF c.isNil THEN {Second}
    ELSE IF c.RetryAfter # "nil" THEN CustomWaits
    ELSE IF c.RespectRetryAfterHeader /\ retryAfter > 0
    THEN {IF c.MaxWaitTime > 0 /\ retryAfter > c.MaxWaitTime THEN c.MaxWaitTime
          ELSE retryAfter}
    ELSE backoff(c.Backoff, n, c)

\* the WaitTime and MaxWaitTime of a config; nothing validates them
WaitTimes == {-1, 0, 1, 3, Second, 100}
MaxWaitTimes == {-1, 0, 2, 10 * Second, MaxDuration}
\* what parseRetryAfterHeader returns: 0 without a usable header
RetryAfterHeaders == {0, 3}

NilBackoffConfig ==
    [isNil |-> TRUE, WaitTime |-> 0, MaxWaitTime |-> 0, Backoff |-> "nil",
     RetryAfter |-> "nil", RespectRetryAfterHeader |-> FALSE]
BackoffConfigs ==
    {NilBackoffConfig} \cup
    { [isNil |-> FALSE, WaitTime |-> w, MaxWaitTime |-> m, Backoff |-> b,
       RetryAfter |-> a, RespectRetryAfterHeader |-> h] :
         w \in WaitTimes, m \in MaxWaitTimes, b \in BackoffFuncs,
         a \in {"nil", "custom"}, h \in BOOLEAN }

\* an attempt number, a config and a response before a call
InitBackoff ==
    /\ InitRest
    /\ \E n \in 1 .. MaxAttemptNumber, c \in BackoffConfigs, r \in RetryAfterHeaders :
          fn = [name |-> "args", attempt |-> n, config |-> c, retryAfter |-> r,
                out |-> 0]

\* a call of one of the backoff functions
CallBackoff(name) ==
    /\ fn.name = "args"
    /\ \E out \in backoff(name, fn.attempt, fn.config) :
          fn' = [fn EXCEPT !.name = name, !.out = out]
    /\ UNCHANGED fnFrame

\* a call of getRetryWaitTime
CallGetRetryWaitTime ==
    /\ fn.name = "args"
    /\ \E out \in getRetryWaitTime(fn.attempt, fn.config, fn.retryAfter) :
          fn' = [fn EXCEPT !.name = "getRetryWaitTime", !.out = out]
    /\ UNCHANGED fnFrame

NextBackoff ==
    \/ \E name \in BackoffFuncs \ {"nil"} : CallBackoff(name)
    \/ CallGetRetryWaitTime

SpecBackoff == InitBackoff /\ [][NextBackoff]_vars

(* -------------------------------- claims ------------------------------- *)

Callers == Procs

\* the failures recorded since the breaker was last Closed that lie inside the
\* window ending now: recorded less than WindowSize ago
RecentFailures ==
    Cardinality({i \in DOMAIN closedFailures :
                    closedFailures[i] > now - config.WindowSize})

\* C1: starting from Closed, once FailureThreshold qualifying failures have been
\* recorded less than WindowSize apart, the breaker is no longer Closed, and the
\* recordResult call that recorded the last of them left it Open.
C1_ThresholdOpens ==
    /\ cb.state = StateClosed => RecentFailures < config.FailureThreshold
    /\ ( /\ last.op = "record" /\ last.from = StateClosed /\ last.fail
         /\ RecentFailures >= config.FailureThreshold )
       => cb.state = StateOpen

\* C1 witness: with FailureThreshold 2 the breaker was opened by failures
\* recorded at two different times, after an older failure had left the window
C1_Witness ==
    /\ cb.state = StateOpen
    /\ last.op = "record" /\ last.from = StateClosed /\ last.fail
    /\ config.FailureThreshold = 2
    /\ Len(closedFailures) = 3
    /\ closedFailures[2] # closedFailures[3]

\* C2: a call whose allow-check found the breaker Open with less than Timeout
\* elapsed since it entered Open never reaches the transport, and returns a
\* CircuitBreakerError that carries the breaker's key, with no response.
C2_OpenRejects ==
    \A p \in Callers :
        gate[p] = "open" =>
            /\ pc[p] \in {"rejected", "done"}
            /\ hist[p] = << >>
            /\ pc[p] = "done" =>
                  /\ err[p] \in {CircuitBreakerError(st, BreakerKey) :
                                    st \in {StateClosed, StateOpen, StateHalfOpen}}
                  /\ res[p] = NilResponse

\* C2 witness: a call rejected by the Open breaker has returned
C2_Witness ==
    \E p \in Callers :
        /\ gate[p] = "open" /\ pc[p] = "done"
        /\ last.op = "allow" /\ last.p = p /\ last.from = StateOpen /\ ~last.elapsed

\* C3: an allow-check that finds the breaker Open once Timeout has elapsed since
\* it entered Open leaves it HalfOpen and admits the request.
C3_TimeoutHalfOpens ==
    (last.op = "allow" /\ last.from = StateOpen /\ last.elapsed) =>
        /\ cb.state = StateHalfOpen
        /\ last.ok
        /\ pc[last.p] \notin {"idle", "rejected", "done"}
        /\ gate[last.p] = "admitted"

\* C3 witness: the allow-check came exactly Timeout after the breaker opened
C3_Witness ==
    /\ last.op = "allow" /\ last.from = StateOpen /\ last.elapsed
    /\ cb.stateChangeTime = now
    /\ config.Timeout = 2
    /\ pc[last.p] = "admitted"

\* C4: while the breaker is HalfOpen, the probes admitted in this HalfOpen
\* period (the one that caused the transition included) whose result is not yet
\* recorded never number more than HalfOpenMaxRequests.
C4_ProbeLimit ==
    cb.state = StateHalfOpen =>
        Cardinality({p \in Callers : probe[p]}) <= config.HalfOpenMaxRequests

\* C5: a qualifying failure recorded while the breaker is HalfOpen leaves it
\* Open, entered at that moment, with the in-flight probe counter and the
\* consecutive-success counter at zero.
C5_HalfOpenFailureOpens ==
    (last.op = "record" /\ last.from = StateHalfOpen /\ last.fail) =>
        /\ cb.state = StateOpen
        /\ cb.halfOpenRequests = 0
        /\ cb.consecutiveSuccesses = 0
        /\ halfOpenResults = 0

\* C5 witness: a failing probe was recorded in HalfOpen
C5_Witness ==
    /\ last.op = "record" /\ last.from = StateHalfOpen /\ last.fail
    /\ cb.state = StateOpen
    /\ enteredAt > 0

C7_OneCheckOneRecord ==
    \A p \in Callers :
        /\ checks[p] <= 1
        /\ hist[p] # << >> => (checks[p] = 1 /\ gate[p] = "admitted")
        /\ Len(records[p]) <= 1
        /\ records[p] # << >> =>
              /\ pc[p] \in {"executed", "done"}
              /\ gate[p] = "admitted"
              /\ records[p][1] = Len(hist[p])
              /\ Len(hist[p]) >= 1
        /\ (pc[p] = "done" /\ gate[p] = "admitted") => Len(records[p]) = 1

\* C7 witness: two admitted calls of two transport attempts each are over, one
\* with a response and one with an error, each recorded once
C7_Witness ==
    \E p, q \in Callers :
        /\ pc[p] = "done" /\ pc[q] = "done"
        /\ Len(hist[p]) = 2 /\ Len(hist[q]) = 2
        /\ err[p] = ErrNil /\ err[q] # ErrNil
        /\ records[p] = << 2 >> /\ records[q] = << 2 >>

\* the outcome of the latest transport attempt of the call
LastOutcome(p) == hist[p][Len(hist[p])]

\* an outcome with no error and the success flag set
IsSuccess(o) == o.err = ErrNil /\ ~o.res.isNil /\ o.res.success

\* executeWithRetry ran its loop and has returned
LoopReturned(p) == pc[p] = "returned" /\ attempt[p] >= 1

\* C8: when attempt MaxAttempts has failed, with a transport error or with a
\* failing response (status 500 and above), executeWithRetry returns that
\* attempt's response and a non-nil error that states the attempt count and
\* wraps the cause.
C8_ExhaustedReturnsError ==
    \A p \in RetryProcs :
        ( /\ LoopReturned(p)
          /\ attempt[p] = retryConfig.MaxAttempts
          /\ Len(hist[p]) = attempt[p]
          /\ \/ LastOutcome(p).err # ErrNil
             \/ LastOutcome(p).res.StatusCode >= 500 )
        => /\ res[p] = LastOutcome(p).res
           /\ err[p].kind = "retry"
           /\ err[p].attempts = retryConfig.MaxAttempts
           /\ LastOutcome(p).err # ErrNil => err[p].cause = LastOutcome(p).err

\* C9: when RetryCondition refuses an attempt's outcome before the attempts are
\* exhausted, executeWithRetry returns that attempt's response and error, the
\* error being the very value the transport returned.
C9_NonRetryableAsIs ==
    \A p \in RetryProcs :
        ( /\ LoopReturned(p)
          /\ retryConfig.MaxAttempts < 0 \/ attempt[p] < retryConfig.MaxAttempts
          /\ ~IsSuccess(LastOutcome(p))
          /\ ~RetryCondition(retryConfig, LastOutcome(p).res, LastOutcome(p).err) )
        => /\ res[p] = LastOutcome(p).res
           /\ err[p] = LastOutcome(p).err

\* C10: the transport is never invoked again after an attempt that succeeded,
\* and when attempt k succeeds executeWithRetry has invoked the transport
\* exactly k times and returns attempt k's response with a nil error.
C10_SuccessAtAttemptK ==
    \A p \in RetryProcs :
        attempt[p] >= 1 =>
            /\ \A i \in 1 .. (Len(hist[p]) - 1) : ~IsSuccess(hist[p][i])
            /\ IsSuccess(LastOutcome(p)) =>
                  /\ pc[p] \in {"returned", "done"}
                  /\ Len(hist[p]) = attempt[p]
                  /\ pc[p] = "returned" =>
                        (res[p] = LastOutcome(p).res /\ err[p] = ErrNil)

\* C10 witness: 500, 500, 200 under MaxAttempts 5 has returned the 200
C10_Witness ==
    \E p \in RetryProcs :
        /\ retryConfig.MaxAttempts = 5
        /\ retryConfig.RetryCondition = "default"
        /\ pc[p] = "returned"
        /\ hist[p] = << [res |-> Response(500, FALSE), err |-> ErrNil],
                        [res |-> Response(500, FALSE), err |-> ErrNil],
                        [res |-> Response(200, TRUE), err |-> ErrNil] >>
        /\ res[p] = Response(200, TRUE)
        /\ err[p] = ErrNil

\* an outcome that is a failure RetryCondition accepts for a retry
IsRetryableFailure(o) == ~IsSuccess(o) /\ RetryCondition(retryConfig, o.res, o.err)

\* C11: every MaxAttempts other than -1 bounds the transport invocations of
\* executeWithRetry: with MaxAttempts = n >= 1 there are never more than n, and
\* exactly n when every attempt is a retryable failure and the context is not
\* cancelled; with any other value but -1 there is a single one.
C11_AttemptsBounded ==
    \A p \in RetryProcs :
        ~retryConfig.isNil =>
            /\ retryConfig.MaxAttempts >= 1 =>
                  /\ Len(hist[p]) <= retryConfig.MaxAttempts
                  /\ ( /\ LoopReturned(p)
                       /\ ~ctxDone[p]
                       /\ \A i \in 1 .. Len(hist[p]) : IsRetryableFailure(hist[p][i]) )
                     => Len(hist[p]) = retryConfig.MaxAttempts
            /\ (retryConfig.MaxAttempts < 1 /\ retryConfig.MaxAttempts # -1) =>
                  Len(hist[p]) <= 1

\* one step of caller p seen by C12
C12_Step(p) ==
    /\ (pc[p] = "wait" /\ ctxDone[p] /\ pc'[p] # "wait") =>
          /\ pc'[p] = "returned"
          /\ err'[p] = ErrCtx
          /\ hist'[p] = hist[p]
    /\ ( /\ pc[p] = "attempt" /\ ctxDone[p]
         /\ Len(hist'[p]) = Len(hist[p]) + 1
         /\ IsRetryableFailure(hist'[p][Len(hist'[p])])
         /\ retryConfig.MaxAttempts < 0 \/ attempt'[p] < retryConfig.MaxAttempts )
       => /\ pc'[p] = "returned"
          /\ err'[p] = ErrCtx

Registered == 1 .. Len(callbacks)

\* C13: a panic inside a completion callback is caught and reported by the
\* dispatcher and does not terminate the program.
C13_PanicContained ==
    \A i \in Registered :
        inner[i] = "panicked" => (~crashed /\ "panic" \in reports[i])

\* C14: the callbacks executing at the same time never outnumber
\* MaxConcurrentCallbacks, and the slot of an observer is held for as long as
\* its callback runs.
C14_BoundedCallbacks ==
    /\ Cardinality({ i \in Registered : inner[i] = "running" }) <= maxConcurrent
    /\ \A i \in Registered : inner[i] = "running" => task[i] = "waiting"

\* every observer is settled as C15 says: the slow one given up on and reported
\* as timed out, every other one run to completion, dispatch returned
C15_Settled ==
    /\ dpc = "returned"
    /\ \A i \in Registered :
          /\ task[i] = "finished"
          /\ callbacks[i] = "slow" => "timeout" \in reports[i]
          /\ callbacks[i] = "fast" => (inner[i] = "over" /\ reports[i] = {})

\* C15: unless the context is cancelled, a dispatch to observers of which one
\* runs longer than CallbackTimeout ends with the slow observer reported as
\* timed out, every other observer run to completion and dispatch returned,
\* also with more observers than MaxConcurrentCallbacks.
C15_TimeoutNoDeadlock == <>[](dispatchCtxDone \/ C15_Settled)

\* C15 witness: three observers on one slot, the first of them slow, are settled
C15_Witness ==
    /\ ~dispatchCtxDone
    /\ maxConcurrent = 1
    /\ callbacks = [i \in 1 .. 3 |-> IF i = 1 THEN "slow" ELSE "fast"]
    /\ C15_Settled

\* C16: once the context is cancelled no callback that has not begun is called,
\* so that every observer not admitted by then is skipped, and dispatch
\* returns.
C16_CancelSkipsObservers ==
    /\ [][\A i \in Observers :
            (dispatchCtxDone /\ inner[i] \in {"none", "ready"})
               => inner'[i] # "running"]_vars
    /\ dispatchCtxDone ~> DispatchOver

\* C16 witness: cancelled while waiting for the one slot, dispatch has returned
\* with the second and third observer never admitted
C16_Witness ==
    /\ dispatchCtxDone
    /\ dpc = "skippedAtSelect"
    /\ maxConcurrent = 1
    /\ Len(callbacks) = 3
    /\ next = 2
    /\ inner[1] = "running"
    /\ inner[2] = "none" /\ inner[3] = "none"

\* C17: what an observer finds in its event is the response as it was
\* dispatched, whatever the other observers and the caller of Request have
\* changed since, and no observer's change shows in the response returned to
\* the caller.
C17_EventIsolated ==
    /\ \A i \in Registered : seen[i] \in {"none", "body"}
    /\ responses.res # "changed"

\* the channels registered on the Request
RegisteredChannels == 1 .. Len(channels)

\* C18: channel dispatch always has a step to take; a channel is sent at most
\* one event, and is sent it exactly when it has room as its select is reached,
\* else the event is dropped for it with a warning; and when the loop is over
\* every registered channel, those after a full one included, has had the one
\* or the other.
C18_ChannelsNeverBlock ==
    /\ [](dpc = "loop" => ENABLED (ChannelSelect \/ ChannelLoopEnd))
    /\ [](\A i \in RegisteredChannels :
             /\ delivered[i] <= 1
             /\ ~(delivered[i] = 1 /\ "dropped" \in reports[i])
             /\ dpc = "returned" => (delivered[i] = 1 \/ "dropped" \in reports[i]))
    /\ [][(dpc = "loop" /\ next' = next + 1) =>
             IF channels[next].len < channels[next].cap
             THEN delivered'[next] = 1 /\ reports'[next] = {}
             ELSE delivered'[next] = 0 /\ reports'[next] = {"dropped"}]_vars

\* C18 witness: of three channels the first was full and had its event
\* dropped, the two after it received theirs
C18_Witness ==
    /\ ~dispatchCtxDone
    /\ dpc = "returned"
    /\ Len(channels) = 3
    /\ reports[1] = {"dropped"} /\ delivered[1] = 0
    /\ delivered[2] = 1 /\ delivered[3] = 1

\* C19: a dispatch called with a context that is already cancelled delivers no
\* event to any registered channel.
C19_CancelledDeliversNothing ==
    ctxAtCall => \A i \in RegisteredChannels : delivered[i] = 0

\* C20: whatever the interleaving of SetHeader and SetParam calls with distinct
\* keys, a key is in its map with the value written from the moment its call
\* has stored it, and when every call is over the headers are the ones the
\* Request had before plus one per SetHeader call, the params one per SetParam
\* call.
C20_NoLostUpdate ==
    /\ \A w \in Writers :
          writers[w].pc \in {"refresh", "stored", "done"} =>
             IF writers[w].op = "SetHeader"
             THEN /\ HeaderKey(w) \in DOMAIN request.headers.m
                  /\ request.headers.m[HeaderKey(w)] = Itoa(w)
             ELSE /\ ParamKey(w) \in DOMAIN request.params.m
                  /\ request.params.m[ParamKey(w)] = AnyInt(w)
    /\ (\A w \in Writers : writers[w].pc = "done") =>
          /\ Cardinality(DOMAIN request.headers.m \ DOMAIN InitialHeaders)
                = Cardinality({ w \in Writers : writers[w].op = "SetHeader" })
          /\ Cardinality(DOMAIN request.params.m)
                = Cardinality({ w \in Writers : writers[w].op = "SetParam" })

\* C20 witness: the goroutines, each with a SetHeader call on a Request that
\* had one header, are over and the Request has one header more per call
C20_Witness ==
    /\ \A w \in Writers : writers[w].op = "SetHeader" /\ writers[w].pc = "done"
    /\ Cardinality(DOMAIN request.headers.m) = MaxWriters + 1

\* the URL derived from the base URL and the params of the Request as they are
DerivedUrl == getUrlInstance(request.baseURL, request.params.m).finalURL

\* C21: whatever SetParam, SetPathParam and SetPathParams calls were made on a
\* built Request, with or without an error returned, the URL toHTTPRequest
\* reads for the transport is the one derived from the base URL and the
\* params the Request holds.
C21_UrlFollowsParams ==
    (builder.state = "built" /\ builder.op = "toHTTPRequest") => builder.sent = DerivedUrl

\* the entries of an encoded query that have key k, in their order
EntriesOf(q, k) == SelectSeq(q, LAMBDA e : e[1] = k)

\* the place of a key in the byte order of the keys
Rank(k) == CHOOSE n \in 1 .. Len(KeyOrder) : KeyOrder[n] = k

\* an encoded query is sorted by key
SortedByKey(q) == \A i, j \in 1 .. Len(q) : i < j => Rank(q[i][1]) <= Rank(q[j][1])

\* the entry of key k the params of the Request call for: none, or the one of
\* its value
ParamEntries(k) ==
    IF k \in DOMAIN request.params.m
    THEN << << k, Sprintf(request.params.m[k]) >> >> ELSE << >>

\* the entries of key k the query of the base URL holds
BaseEntries(k) ==
    IF k \in DOMAIN request.baseURL.query
    THEN [j \in 1 .. Len(request.baseURL.query[k]) |-> << k, request.baseURL.query[k][j] >>]
    ELSE << >>

\* the Request was just built, or SetParam was just called on it, and no
\* call but SetParam has written to its params
AfterBuildOrSetParam ==
    /\ builder.state = "built"
    /\ builder.op \in {"Build", "SetParam"}
    /\ PathParamsKey \notin DOMAIN request.params.m

\* C22 as stated: for a Request built from any base URL and params, after
\* construction and after each SetParam the query of FullUrl() holds one
\* entry per key of the params, with its value, and nothing else.
C22_QueryIsParams ==
    AfterBuildOrSetParam =>
        LET q == request.url.RawQuery
        IN  /\ \A n \in 1 .. Len(KeyOrder) : EntriesOf(q, KeyOrder[n]) = ParamEntries(KeyOrder[n])
            /\ Len(q) = Cardinality(DOMAIN request.params.m)

\* C22, amended: for a Request built from any base URL and params, after
\* construction and after each SetParam the query of FullUrl() holds, sorted
\* by key, the entries of the base URL's own query and after them, key by
\* key, one entry per key of the params with its value, and nothing else.
C22_QueryIsBaseAndParams ==
    AfterBuildOrSetParam =>
        LET q == request.url.RawQuery
        IN  /\ \A n \in 1 .. Len(KeyOrder) :
                  EntriesOf(q, KeyOrder[n])
                     = BaseEntries(KeyOrder[n]) \o ParamEntries(KeyOrder[n])
            /\ \A j \in 1 .. Len(q) :
                  q[j][1] \in DOMAIN request.baseURL.query \cup DOMAIN request.params.m
            /\ SortedByKey(q)

\* C22 witness: SetParam has set, on a Request whose base URL has the query
\* page=1, the params page and limit, and FullUrl() has three entries
C22_Witness ==
    /\ AfterBuildOrSetParam
    /\ builder.op = "SetParam"
    /\ request.baseURL = QueryURL
    /\ DOMAIN request.params.m = QueryKeys
    /\ Len(request.url.RawQuery) = 3

\* the breakers constructed for a key
MadeFor(k) == { n \in 1 .. Len(mgr.made) : mgr.made[n].key = k }

\* the GetOrCreate calls for a key that have their breaker
ReturnedFor(k) == { g \in Getters : getters[g].key = k /\ getters[g].pc \in {"stored", "returned"} }

\* C23: whatever the interleaving of GetOrCreate calls, at most one breaker
\* is ever constructed for a key; every call for the key has the breaker that
\* is stored under it, which is the one constructed first, with the config it
\* was constructed with whatever override later calls pass.
C23_OneBreakerPerKey ==
    \A k \in ManagerKeys :
        /\ Cardinality(MadeFor(k)) <= 1
        /\ ReturnedFor(k) # {} =>
              /\ Cardinality(MadeFor(k)) = 1
              /\ k \in DOMAIN mgr.breakers
              /\ \A n \in MadeFor(k) : mgr.breakers[k] = mgr.made[n]
              /\ \A g \in ReturnedFor(k) : getters[g].ret = mgr.breakers[k]

\* C23 witness: every goroutine called GetOrCreate with the same key, the
\* first without and another with an override, two of them took the write
\* lock, and all returned the one breaker, which has the default config
C23_Witness ==
    /\ \A g \in Getters : getters[g].key = "key1" /\ getters[g].pc = "returned"
    /\ \E g \in Getters : getters[g].config = "override" /\ ~getters[g].exists
    /\ Len(mgr.made) = 1
    /\ mgr.breakers["key1"].config = "default"

\* C24: the default ShouldTrip predicate counts an outcome as a failure
\* exactly when the error is non-nil, the response is nil, or the status code
\* is 500 or more or is 429.
C24_ShouldTripAsSpecified ==
    fn.name = "defaultShouldTrip" =>
        (fn.out <=> \/ fn.err # ErrNil
                    \/ fn.res.isNil
                    \/ fn.res.StatusCode >= 500
                    \/ fn.res.StatusCode = 429)

\* C25: defaultShouldTrip returns false exactly when the error is nil, the
\* response is not nil and its status code is in 200..299, and true for any
\* other outcome.
C25_ShouldTripAsTested ==
    fn.name = "defaultShouldTrip" =>
        (~fn.out <=> /\ fn.err = ErrNil
                     /\ ~fn.res.isNil
                     /\ fn.res.StatusCode \in 200 .. 299)

\* the failures recorded since the breaker was last Closed, this step's
\* included, that lie inside the window ending now
RecentFailuresAfter ==
    Cardinality({i \in DOMAIN closedFailures' :
                    closedFailures'[i] > now - config.WindowSize})

\* the step is a recordResult call: some caller has one more of them
RecordResultStep == \E p \in Procs : Len(records'[p]) > Len(records[p])

\* C26: a Closed breaker becomes Open only in a recordResult call, and only
\* when at least FailureThreshold failures were recorded less than WindowSize
\* before it, that call's included; every recordResult on a Closed breaker,
\* failure or not, leaves no failure older than WindowSize in the window.
C26_Step ==
    /\ (cb.state = StateClosed /\ cb'.state = StateOpen) =>
          /\ RecordResultStep
          /\ RecentFailuresAfter >= config.FailureThreshold
    /\ (cb.state = StateClosed /\ RecordResultStep) =>
          \A i \in DOMAIN cb'.failures : cb'.failures[i] > now - config.WindowSize
C26_OpensOnlyOnRecentFailures == [][C26_Step]_vars

\* C26 witness: with FailureThreshold 2, a second failure was recorded after
\* the first had left the window, and the breaker is still Closed with one
\* failure in its window
C26_Witness ==
    /\ cb.state = StateClosed
    /\ last.op = "record" /\ last.from = StateClosed /\ last.fail
    /\ config.FailureThreshold = 2
    /\ Len(closedFailures) = 2
    /\ Len(cb.failures) = 1

\* the smaller of two numbers
Min(a, b) == IF a < b THEN a ELSE b

\* C27: for every attempt number n >= 1 and every config with WaitTime w > 0
\* and MaxWaitTime m > 0, ExponentialBackoff returns min(w * 2^(n-1), m),
\* LinearBackoff min(w * n, m) and FixedBackoff w.
C27_BackoffValues ==
    (fn.name \in BackoffFuncs /\ ~fn.config.isNil /\ fn.config.WaitTime > 0
       /\ fn.config.MaxWaitTime > 0) =>
        LET w == fn.config.WaitTime
            m == fn.config.MaxWaitTime
            n == fn.attempt
        IN  fn.out = CASE fn.name = "ExponentialBackoff" -> Min(w * 2 ^ (n - 1), m)
                       [] fn.name = "LinearBackoff" -> Min(w * n, m)
                       [] OTHER -> w

\* C28: the wait before a retry is never zero: a nil config or a WaitTime of
\* zero gives one second, and with the standard backoff functions and no
\* custom RetryAfter getRetryWaitTime is more than zero for every attempt
\* number.
C28_WaitPositive ==
    /\ (fn.name \in BackoffFuncs \cup {"getRetryWaitTime"}
          /\ (fn.config.isNil \/ fn.config.WaitTime = 0)
          /\ ~(fn.name = "getRetryWaitTime" /\ ~fn.config.isNil
                 /\ (fn.config.RetryAfter # "nil"
                       \/ (fn.config.RespectRetryAfterHeader /\ fn.retryAfter > 0))))
       => fn.out = Second
    /\ (fn.name = "getRetryWaitTime" /\ (fn.config.isNil \/ fn.config.RetryAfter = "nil"))
       => fn.out > 0

\* the Request the k-th middleware call of caller p must have been given:
\* the one Request built, replaced by each earlier middleware that returns
\* another one
RECURSIVE InputOf(_)
InputOf(k) ==
    IF k = 1 THEN << >>
    ELSE IF chain.requestMW[k - 1] = "replace" THEN Append(InputOf(k - 1), k - 1)
    ELSE InputOf(k - 1)

\* the middlewares of the client that return an error
Failing == { i \in DOMAIN chain.requestMW : chain.requestMW[i] = "fail" }

\* C29: the k-th middleware call of a Request call is the k-th middleware
\* registered, given what the one before it returned; once a middleware has
\* returned an error no later one is called, the breaker is not asked, the
\* transport is not invoked and Request returns no response and an error that
\* wraps the middleware's; the breaker and the transport are reached only
\* after every middleware has run without error.
C29_MiddlewareOrder ==
    \A p \in Procs :
        /\ \A k \in DOMAIN chain.ran[p] :
              /\ chain.ran[p][k].mw = k
              /\ chain.ran[p][k].req = InputOf(k)
        /\ \A k \in DOMAIN chain.ran[p] :
              k \in Failing =>
                 /\ Len(chain.ran[p]) = k
                 /\ checks[p] = 0
                 /\ hist[p] = << >>
                 /\ pc[p] = "done"
                 /\ res[p] = NilResponse
                 /\ err[p] = MiddlewareError(MiddlewareFailure(k))
        /\ (checks[p] > 0 \/ hist[p] # << >>) =>
              /\ Len(chain.ran[p]) = Len(chain.requestMW)
              /\ Failing = {}

\* C29 witness: the second of two middlewares returned an error after the
\* first replaced the Request, and the call returned it wrapped
C29_Witness ==
    /\ Len(chain.requestMW) >= 2
    /\ chain.requestMW[1] = "replace"
    /\ chain.requestMW[2] = "fail"
    /\ pc["g1"] = "done"
    /\ Len(chain.ran["g1"]) = 2
    /\ chain.ran["g1"][2].req = << 1 >>
    /\ err["g1"] = MiddlewareError(MiddlewareFailure(2))

\* the failures recordFailure has recorded since the breaker was last closed
\* that are inside the window now
RecentRecorded ==
    Cardinality({i \in DOMAIN closedFailures :
                    closedFailures[i] > now - config.WindowSize})

\* the step is a GetStats call: new statistics have been returned
GetStatsStep == fn' # fn

C30_Step ==
    GetStatsStep =>
        /\ cb' = cb
        /\ UNCHANGED statsFrame
        /\ fn'.stats.FailureCount = RecentRecorded
        /\ fn'.stats.State = cb.state
        /\ fn'.stats.LastFailureTime = cb.lastFailureTime
        /\ fn'.stats.HalfOpenRequests = cb.halfOpenRequests
        /\ fn'.stats.ConsecutiveSuccesses = cb.consecutiveSuccesses
        /\ fn'.stats.StateChangeTime = cb.stateChangeTime

\* C30: a GetStats call changes no field of the breaker (state, failure list,
\* counters, timestamps) nor anything else, and returns the breaker's fields
\* with, as FailureCount, the number of recorded failures newer than
\* now - WindowSize.
C30_GetStatsReadsOnly == [][C30_Step]_vars

\* C30 witness: GetStats was called on an open breaker whose only recorded
\* failure had left the window: it answered 0 and the record is still there
C30_Witness ==
    /\ fn.name = "GetStats"
    /\ fn.stats.State = StateOpen
    /\ fn.stats.FailureCount = 0
    /\ cb.state = StateOpen
    /\ fn.stats.StateChangeTime = cb.stateChangeTime
    /\ fn.stats.LastFailureTime = cb.lastFailureTime
    /\ Len(cb.failures) = 1
    /\ RecentRecorded = 0

\* C31: every call of getOrSetCircuitBreakerKey on a Request whose key is not
\* cached yet returns: it is never left waiting for the Request's own lock.
C31_KeyReturned ==
    \A g \in Getters : <>(keyed.g[g].pc = "returned")

\* the requests admitted in the current HalfOpen period whose result is not
\* recorded yet
InFlightProbes == { p \in Procs : probe[p] }

\* C32: the half-open in-flight counter is never negative and, while the
\* breaker is HalfOpen, equals the number of requests admitted in this
\* HalfOpen period whose result has not been recorded yet.
C32_InFlightCounter ==
    /\ cb.halfOpenRequests >= 0
    /\ cb.state = StateHalfOpen =>
          cb.halfOpenRequests = Cardinality(InFlightProbes)

\* C33: the CircuitBreakerError a call got carries the state its allow-check
\* refused it in, Open or HalfOpen, and never Closed.
C33_ErrorCarriesRejectingState ==
    \A p \in Procs :
        err[p].kind = "circuit" =>
            /\ err[p].State # StateClosed
            /\ err[p].State = IF gate[p] = "open" THEN StateOpen ELSE StateHalfOpen

\* the step is a recordResult call of caller p made while the breaker is
\* HalfOpen, for a request that was not admitted in this HalfOpen period
StaleRecordStep(p) ==
    /\ Len(records'[p]) > Len(records[p])
    /\ cb.state = StateHalfOpen
    /\ ~probe[p]

C34_Step ==
    \A p \in Procs :
        StaleRecordStep(p) =>
            /\ cb'.consecutiveSuccesses = cb.consecutiveSuccesses
            /\ cb'.halfOpenRequests = cb.halfOpenRequests
            /\ cb'.state = cb.state

\* C34: a result recorded while the breaker is HalfOpen, of a request that
\* was admitted while it was Closed or in an earlier HalfOpen period, changes
\* neither consecutiveSuccesses, nor halfOpenRequests, nor the state.
C34_StaleResultsIgnored == [][C34_Step]_vars

\* C35: while the breaker is Closed its failure window holds fewer than
\* FailureThreshold entries.
C35_ClosedBelowThreshold ==
    cb.state = StateClosed => Len(cb.failures) < config.FailureThreshold

\* C35 witness: a Closed breaker one failure short of its threshold, and
\* that failure recorded by a call
C35_Witness ==
    /\ cb.state = StateClosed
    /\ config.FailureThreshold = 2
    /\ Len(cb.failures) = 1
    /\ \E p \in Procs : records[p] # << >> /\ err[p] # ErrNil

\* the state changes a breaker makes
StateChanges ==
    { << StateClosed, StateOpen >>, << StateOpen, StateHalfOpen >>,
      << StateHalfOpen, StateOpen >>, << StateHalfOpen, StateClosed >> }

C36_Step ==
    IF cb'.state # cb.state
    THEN /\ << cb.state, cb'.state >> \in StateChanges
         /\ cb'.notified = Append(cb.notified, << cb.state, cb'.state, BreakerKey >>)
    ELSE cb'.notified = cb.notified

\* C36: the state of the breaker changes only from Closed to Open, from Open
\* to HalfOpen, from HalfOpen to Open and from HalfOpen to Closed; a step
\* that changes it calls OnStateChange once, with the state before, the state
\* after and the breaker's key, and a step that does not change it makes no
\* call.
C36_TransitionsNotified == [][C36_Step]_vars

\* C36 witness: the breaker has gone round, and the callback was told of
\* each change
C36_Witness ==
    /\ cb.state = StateClosed
    /\ cb.notified = << << StateClosed, StateOpen, BreakerKey >>,
                        << StateOpen, StateHalfOpen, BreakerKey >>,
                        << StateHalfOpen, StateClosed, BreakerKey >> >>

\* C37: a breaker that is HalfOpen becomes Open or Closed, when every call in
\* progress goes on and calls keep being made.
C37_HalfOpenEnds ==
    (cb.state = StateHalfOpen) ~> (cb.state # StateHalfOpen)

\* C37 witness: a HalfOpen period that needed two successes has ended with
\* the breaker Closed
C37_Witness ==
    /\ config.SuccessThreshold = 2
    /\ last.op = "record"
    /\ last.from = StateHalfOpen
    /\ cb.state = StateClosed

\* the outcome has no error and a response that passes ValidateStatus
PassesValidation(o) == o.err = ErrNil /\ ValidateStatus(o.res)

\* C38: in a call with a retry policy, a transport attempt that returned no
\* error and a response passing the status validation is the last attempt of
\* the call, whatever the RetryCondition.
C38_ValidResponseEndsLoop ==
    \A p \in RetryProcs :
        \A i \in DOMAIN hist[p] :
            (~retryConfig.isNil /\ PassesValidation(hist[p][i])) => i = Len(hist[p])

\* the call of p is in executeWithRetry's loop with its context cancelled
CancelledInLoop(p) == ctxDone[p] /\ pc[p] \in {"attempt", "wait"}

\* a step of p out of the wait, or a transport attempt, made with the
\* context cancelled, ends executeWithRetry
C39_Step(p) ==
    (CancelledInLoop(p) /\ (pc'[p] # pc[p] \/ hist'[p] # hist[p])) =>
        pc'[p] = "returned"

EndedWithError(p) == pc[p] \in {"done", "ended"} /\ err[p] # ErrNil

\* C40: when Request has ended a call with an error (of a request
\* middleware, of the breaker, of the transport, of a response middleware),
\* dispatch was not called for it and no observer of its Request has been
\* started.
C40_NoObserverAfterError ==
    EndedWithError(ObservedCaller) =>
        /\ dpc = "waiting"
        /\ \A i \in Observers : inner[i] = "none" /\ task[i] = "none"

\* C40 witness: the call whose Request holds two observers passed the breaker
\* and the transport and was ended by a response middleware
C40_Witness ==
    /\ Len(callbacks) = 2
    /\ pc[ObservedCaller] = "ended"
    /\ err[ObservedCaller] = ResponseMiddlewareError
    /\ Len(hist[ObservedCaller]) = 1

====
